---- MODULE Spec2Model ----
(***************************************************************************)
(* Model of the Haier hOn Homey app: the HonApi cloud session              *)
(* (src/lib/HonApi.js), the way app.js brings a session up, and the        *)
(* per-device poll / settle-delay logic and the commands the set requests  *)
(* of a device build (src/drivers/aircon/device.js).                       *)
(*                                                                         *)
(* JavaScript runs one task at a time and a task only yields at an await   *)
(* of network I/O (or of a timer).  Every action below is therefore one    *)
(* run-to-completion piece of code: from a call or an I/O completion up    *)
(* to the next network request.  The continuations of everybody awaiting   *)
(* the same promise run in the same microtask drain, before any other I/O  *)
(* completion, so they are part of the action that settles the promise.    *)
(*                                                                         *)
(* Times of the session model are in hours, times of the device model in   *)
(* units of 5 seconds.  A token is a positive number, 0 is null.           *)
(***************************************************************************)
EXTENDS Integers, FiniteSets, Sequences, TLC

\* ------------------------------------------------------------------ bounds
MaxNow == 2
MaxToken == 2
NumSlots == 2
MaxTime == 4
MaxPolls == 2
MaxWrites == 2
MaxStarts == 2
MaxRepairs == 2
MaxTemperature == 35
MaxIdLen == 3
MaxInstances == 2
MaxIssue == 3

\* ------------------------------------------------------- program constants
TOKEN_LIFETIME_MS == 8
TOKEN_EXPIRY_BUFFER == 1
DEFAULT_EXPIRES_IN == 8
\* device.js, in units of 5 seconds: the delay of the settle timeout (10000 ms)
\* and the default poll interval (5000 ms)
SETTLE_DELAY == 2
DEFAULT_POLL_INTERVAL == 1

\* Two concurrent _apiRequest() calls on the shared HonApi instance (a poll's
\* getApplianceState, a capability write's sendCommand, getAppliances, ...).
Callers == {"c1", "c2"}
Slots == 1..NumSlots
\* expires_in of a refresh-grant response: 0 is "field absent", 2 a short-lived token
ExpiresIn == {0, 2}
\* HTTP status of a device API response
Statuses == {200, 401, 403, 500}

VARIABLES
  now,              \* Date.now()
  refreshToken,     \* HonApi fields
  accessToken,
  idToken,
  cognitoToken,
  tokenExpiresAt,
  _authenticated,
  _refreshPromise,  \* 0, or the slot of the refresh in flight
  refreshes,        \* slot -> the _refreshAccessToken() run in it
  initPc,           \* initializeWithTokens(): "idle" or awaiting its exchange
  appPc,            \* app._initializeApi(): where it is
  callers,          \* caller -> its _apiRequest() call
  failed,           \* history: a refresh or a retry failed, and no exchange succeeded since
  onTokenRefresh,   \* history: what onTokenRefresh() was called with last (0: never)
  time,             \* the device's Date.now()
  _skipPollUntil,   \* AirconDevice fields
  pollDue,          \* when the setInterval() timer _pollTimer fires next (0: null)
  settleTimers,     \* the deadlines of the setTimeout() callbacks the writes left
  polls,            \* getApplianceState() calls of _pollDeviceState() in flight
  writes,           \* sendCommand() calls of capability writes in flight
  capability,       \* where the stored capability value comes from
  available,        \* getAvailable()
  lastWrite,        \* history: when the last write completed (-1: no write yet)
  strayTimers,      \* when the setInterval() timers _pollTimer lost track of fire next
  starting,         \* _startPolling() calls awaiting the fetch of their initial poll
  deleted,          \* onDeleted() has run
  appApi,           \* app.api: the number of the HonApi instance app.getApi() returns
  _api,             \* the instance the device has cached (0: null)
  repairing,        \* the repair handler is between app.setTokens() and device.onInit()
  cmd,              \* what the set requests of the device read and leave, see below
  app               \* the app: its settings, and every HonApi instance it has made

sessionVars == <<now, refreshToken, accessToken, idToken, cognitoToken, tokenExpiresAt,
                 _authenticated, _refreshPromise, refreshes, initPc, appPc, callers,
                 failed, onTokenRefresh>>

\* the session with the app that holds it
authVars == <<sessionVars, app>>

\* the life cycle of the device and of the app that serves it
lifeVars == <<strayTimers, starting, deleted, appApi, _api, repairing, app>>

devVars == <<time, _skipPollUntil, pollDue, settleTimers, polls, writes, capability,
             available, lastWrite, lifeVars>>

cmdVars == <<cmd>>

\* The fields of cmd.
\* the settings command definition the cloud returned (NoSchema: none yet)
schema == cmd.schema
\* AirconDevice fields (the empty object stands for undefined too)
_mandatoryParams == cmd._mandatoryParams
_ancillaryParams == cmd._ancillaryParams
\* getCapabilityValue('hon_hvac_mode') ("null": never set)
hvacMode == cmd.hvacMode
\* getCapabilityValue('target_temperature'), in half degrees (0: null)
targetTemp == cmd.targetTemp
\* getCapabilityValue('hon_fan_speed') ("null": never set)
fanSpeed == cmd.fanSpeed
\* getCapabilityValue('onoff') ("null": never set)
onoff == cmd.onoff
\* getCapabilityValue('hon_swing_mode') ("null": never set)
swingMode == cmd.swingMode
ecoPilot == cmd.ecoPilot
\* the body of the sendCommand() request in flight (NoCommand: none)
sent == cmd.sent
\* the local currentTemp the _setHvacMode() call in flight holds
currentTemp == cmd.currentTemp
\* the error the set request that ran last was rejected with
thrown == cmd.thrown
\* the value of a set request or the argument of a mapping
arg == cmd.arg
\* the mapping's result
out == cmd.out

vars == <<authVars, devVars, cmdVars>>

\* The service-access token the exchange endpoint returns for an id token.
CognitoFor(id) == 100 + id

IdleSlot == [phase |-> "idle", sentId |-> 0, grant |-> 0]

\* A caller that is not inside _apiRequest(); it keeps how its last call ended.
\* last is the status of the response the call ended on (0: it did not end on a
\* response but on an error of _ensureAuthenticated() or of the refresh).
Ended(res, last) ==
  [pc |-> "idle", await |-> 0, edge |-> FALSE, last |-> last, result |-> res]

\* A caller awaiting the refresh in slot s.
Awaiting(pc, s) ==
  [pc |-> pc, await |-> s, edge |-> FALSE, last |-> 0, result |-> "none"]

\* A caller whose request is on the wire. Its headers, _buildAuthHeaders(), are
\* the cognitoToken and idToken held in the step that sends it. edge notes a
\* call that _ensureAuthenticated() let through at the very instant
\* now = tokenExpiresAt - TOKEN_EXPIRY_BUFFER.
Fetching(pc, edge) ==
  [pc |-> pc, await |-> 0, edge |-> edge, last |-> 0, result |-> "none"]

\* A HonApi instance that has not been made.  pc is where the instance is:
\* "init" awaiting the exchange of initializeWithTokens(), "grant" and
\* "exchange" awaiting the two requests of _refreshAccessToken(), "idle".
NoInstance == [pc |-> "none", accessToken |-> 0, idToken |-> 0, refreshToken |-> 0]

\* The app before onInit(): nothing in the settings, app.api null (0), no
\* instance created, no token issued by the cloud.
InitApp ==
  [settings |-> [accessToken |-> 0, idToken |-> 0, refreshToken |-> 0],
   api |-> 0, created |-> 0, issued |-> 0,
   instances |-> [k \in 1..MaxInstances |-> NoInstance]]

\* The device once onInit() has run: listeners registered, the initial poll
\* done, the interval timer set, no write yet.
InitDevice ==
  /\ time = 0
  /\ _skipPollUntil = 0
  /\ pollDue = DEFAULT_POLL_INTERVAL
  /\ settleTimers = <<>>
  /\ polls = 0
  /\ writes = 0
  /\ capability = "polled"
  /\ available = TRUE
  /\ lastWrite = -1
  /\ strayTimers = <<>>
  /\ starting = 0
  /\ deleted = FALSE
  /\ appApi = 1
  /\ _api = 1
  /\ repairing = FALSE

\* An object with string values, as a function from its keys; a key whose
\* value is undefined holds "undefined".
Empty == [k \in {} |-> "undefined"]

\* obj[key] = value
Put(obj, key, value) ==
  [k \in DOMAIN obj \cup {key} |-> IF k = key THEN value ELSE obj[k]]

\* No command definition fetched yet.
NoSchema == [parameters |-> Empty, ancillaryParameters |-> Empty]

\* No sendCommand() request in flight.
NoCommand ==
  [commandName |-> "undefined", programName |-> "undefined",
   parameters |-> Empty, ancillaryParameters |-> Empty]

NoArg == [fn |-> "none", x |-> 0, s |-> "none"]

\* The command side of the device once onInit() has run and before
\* _fetchCommandDefinitions(), which onInit() does not await, has its answer:
\* no capability value stored yet, no set request made.
NoRequest ==
  [schema |-> NoSchema, _mandatoryParams |-> Empty, _ancillaryParams |-> Empty,
   hvacMode |-> "null", targetTemp |-> 0, fanSpeed |-> "null", onoff |-> "null",
   swingMode |-> "null", ecoPilot |-> "null", sent |-> NoCommand,
   currentTemp |-> 0, thrown |-> "none", arg |-> NoArg, out |-> NoArg]

InitCommand == cmd = NoRequest

\* The session before app.js has brought it up.
InitSession ==
  /\ now = 0
  /\ refreshToken = 0
  /\ accessToken = 0
  /\ idToken = 0
  /\ cognitoToken = 0
  /\ tokenExpiresAt = 0
  /\ _authenticated = FALSE
  /\ _refreshPromise = 0
  /\ refreshes = [s \in Slots |-> IdleSlot]
  /\ initPc = [pc |-> "idle", sentId |-> 0, since |-> 0]
  /\ appPc = "new"
  /\ callers = [c \in Callers |-> Ended("none", 0)]
  /\ failed = FALSE
  /\ onTokenRefresh = 0
  /\ app = InitApp

Init ==
  /\ InitSession
  /\ InitDevice
  /\ InitCommand

\* isAuthenticated() with the comparison "Date.now() >= tokenExpiresAt - buffer".
AuthenticatedBefore(auth, cog, id, exp, t) ==
  /\ auth
  /\ cog # 0
  /\ id # 0
  /\ ~(exp # 0 /\ t >= exp - TOKEN_EXPIRY_BUFFER)

\* isAuthenticated() as a function of the fields and the clock.
AuthenticatedAt(auth, cog, id, exp, t) ==
  /\ auth
  /\ cog # 0
  /\ id # 0
  /\ ~(exp # 0 /\ t > exp - TOKEN_EXPIRY_BUFFER)

isAuthenticated ==
  AuthenticatedAt(_authenticated, cognitoToken, idToken, tokenExpiresAt, now)

FreeSlots == {s \in Slots : refreshes[s].phase = "idle"}

\* _safeRefresh() without the "if (this._refreshPromise) return" guard: every call
\* starts a refresh of its own (as long as the model has a slot for it).
_safeRefreshUnguarded ==
  IF refreshToken = 0
  THEN [slot |-> 0, promise |-> _refreshPromise, refreshes |-> refreshes]
  ELSE IF FreeSlots = {}
  THEN [slot |-> _refreshPromise, promise |-> _refreshPromise, refreshes |-> refreshes]
  ELSE LET s == CHOOSE f \in FreeSlots : TRUE
       IN [slot |-> s, promise |-> s,
           refreshes |-> [refreshes EXCEPT
                            ![s] = [phase |-> "grant", sentId |-> 0,
                                    grant |-> refreshToken]]]

\* _safeRefresh(): the promise the caller awaits and what the call changed.
\* slot 0 is a promise that is already rejected (no refresh token: the
\* _refreshAccessToken() it started threw before any request, and its
\* finally() has cleared _refreshPromise again).
_safeRefresh ==
  IF _refreshPromise # 0
  THEN [slot |-> _refreshPromise, promise |-> _refreshPromise, refreshes |-> refreshes]
  ELSE IF refreshToken = 0
  THEN [slot |-> 0, promise |-> 0, refreshes |-> refreshes]
  ELSE LET s == CHOOSE f \in FreeSlots : TRUE
       IN [slot |-> s, promise |-> s,
           refreshes |-> [refreshes EXCEPT
                            ![s] = [phase |-> "grant", sentId |-> 0,
                                    grant |-> refreshToken]]]

\* The callers as they are once the refresh of slot s has settled: everybody
\* awaiting it resumes. A caller inside _ensureAuthenticated() sends its first
\* request or fails with the refresh error; a caller on the 401/403 path sends
\* its one retry, or fails.
Resumed(cs, s, ok) ==
  [c \in Callers |->
     IF cs[c].await # s \/ cs[c].pc \notin {"ensure", "reauth"} THEN cs[c]
     ELSE IF cs[c].pc = "ensure"
     THEN IF ok THEN Fetching("fetch0", FALSE) ELSE Ended("authErr", 0)
     ELSE IF ok THEN Fetching("fetch1", FALSE) ELSE Ended("refreshErr", 0)]

\* Whether a caller on the 401/403 path awaits slot s (its catch block clears
\* _authenticated when the refresh fails).
ReactiveWaiter(s) == \E c \in Callers : callers[c].pc = "reauth" /\ callers[c].await = s

\* app._initializeApi() resumes from its own await of _safeRefresh(); the API
\* instance is kept either way, as a refresh token is stored.
AppResumed(s) == IF appPc = "fallback" THEN "ready" ELSE appPc

\* setTokens(accessToken, idToken, refreshToken)
setTokens(a, i, r) ==
  /\ accessToken' = a
  /\ idToken' = i
  /\ refreshToken' = (IF r # 0 THEN r ELSE refreshToken)
  /\ tokenExpiresAt' = now + TOKEN_LIFETIME_MS

\* _getCognitoToken(), the request: the exchange is sent with the id token held
\* at that moment.
\* since notes when setTokens() ran.
ExchangeRequest(id) == [pc |-> "exchange", sentId |-> id, since |-> now]

\* app._initializeApi() up to its first await. a, i, r are the tokens stored
\* in the settings (0: not stored).
AppInitializeApi(a, i, r) ==
  /\ UNCHANGED <<devVars, cmdVars, onTokenRefresh>>
  /\ appPc = "new"
  /\ UNCHANGED <<now, cognitoToken, _authenticated, callers, failed>>
  /\ IF r = 0 /\ a = 0
     THEN \* no tokens stored: no HonApi instance
          /\ appPc' = "none"
          /\ UNCHANGED <<refreshToken, accessToken, idToken, tokenExpiresAt,
                         _refreshPromise, refreshes, initPc>>
     ELSE IF a # 0 /\ i # 0
     THEN \* setTokens(), then initializeWithTokens() sends the exchange
          /\ setTokens(a, i, r)
          /\ initPc' = ExchangeRequest(i)
          /\ appPc' = "init"
          /\ UNCHANGED <<_refreshPromise, refreshes>>
     ELSE IF r # 0
     THEN \* only the refresh token: new HonApi({refreshToken}), _safeRefresh()
          /\ refreshToken' = r
          /\ refreshes' = [refreshes EXCEPT
                            ![1] = [phase |-> "grant", sentId |-> 0, grant |-> r]]
          /\ _refreshPromise' = 1
          /\ appPc' = "fallback"
          /\ UNCHANGED <<accessToken, idToken, tokenExpiresAt, initPc>>
     ELSE \* an access token alone: the instance exists and holds nothing
          /\ appPc' = "ready"
          /\ UNCHANGED <<refreshToken, accessToken, idToken, tokenExpiresAt,
                         _refreshPromise, refreshes, initPc>>

\* initializeWithTokens(): the exchange answered with a token.
InitExchangeSucceeded ==
  /\ UNCHANGED <<devVars, cmdVars, onTokenRefresh>>
  /\ initPc.pc = "exchange"
  /\ initPc.sentId # 0
  /\ cognitoToken' = CognitoFor(initPc.sentId)
  /\ _authenticated' = TRUE
  /\ failed' = FALSE
  /\ initPc' = [pc |-> "idle", sentId |-> 0, since |-> 0]
  /\ appPc' = "ready"
  /\ UNCHANGED <<now, refreshToken, accessToken, idToken, tokenExpiresAt,
                 _refreshPromise, refreshes, callers>>

\* initializeWithTokens(): the exchange failed (status, or no cognitoUser.Token);
\* _initializeApi() falls back to _safeRefresh() when a refresh token is stored
\* and drops the instance otherwise.
InitExchangeFailed ==
  /\ UNCHANGED <<devVars, cmdVars, onTokenRefresh>>
  /\ initPc.pc = "exchange"
  /\ initPc' = [pc |-> "idle", sentId |-> 0, since |-> 0]
  /\ refreshToken # 0 => (_refreshPromise # 0 \/ FreeSlots # {})
  /\ IF refreshToken # 0
     THEN /\ refreshes' = _safeRefresh.refreshes
          /\ _refreshPromise' = _safeRefresh.promise
          /\ appPc' = "fallback"
     ELSE /\ appPc' = "none"
          /\ UNCHANGED <<refreshes, _refreshPromise>>
  /\ UNCHANGED <<now, refreshToken, accessToken, idToken, cognitoToken, tokenExpiresAt,
                 _authenticated, callers, failed>>

\* The HonApi instance exists and the devices can reach it (app.getApi()).
ApiAvailable == appPc \in {"init", "fallback", "ready"}

\* _apiRequest(), _ensureAuthenticated() returns at once: the request is sent.
EnsureFresh(c) ==
  /\ isAuthenticated
  /\ callers' = [callers EXCEPT ![c] = Fetching("fetch0",
                                   now = tokenExpiresAt - TOKEN_EXPIRY_BUFFER)]
  /\ UNCHANGED <<now, refreshToken, accessToken, idToken, cognitoToken, tokenExpiresAt,
                 _authenticated, _refreshPromise, refreshes, initPc, appPc, failed>>

\* _apiRequest(), _ensureAuthenticated() awaits _safeRefresh().
EnsureRefresh(c) ==
  /\ ~isAuthenticated
  /\ refreshToken # 0
  /\ _refreshPromise # 0 \/ FreeSlots # {}
  /\ callers' = [callers EXCEPT ![c] = Awaiting("ensure", _safeRefresh.slot)]
  /\ refreshes' = _safeRefresh.refreshes
  /\ _refreshPromise' = _safeRefresh.promise
  /\ UNCHANGED <<now, refreshToken, accessToken, idToken, cognitoToken, tokenExpiresAt,
                 _authenticated, initPc, appPc, failed>>

\* _ensureAuthenticated() that also drops the service-access token when it throws.
EnsureNoCredentialClearing(c) ==
  /\ ~isAuthenticated
  /\ refreshToken = 0
  /\ callers' = [callers EXCEPT ![c] = Ended("notAuthenticated", 0)]
  /\ cognitoToken' = 0
  /\ UNCHANGED <<now, refreshToken, accessToken, idToken, tokenExpiresAt,
                 _authenticated, _refreshPromise, refreshes, initPc, appPc, failed>>

\* _apiRequest(), _ensureAuthenticated() throws: not authenticated, no refresh token.
EnsureNoCredential(c) ==
  /\ ~isAuthenticated
  /\ refreshToken = 0
  /\ callers' = [callers EXCEPT ![c] = Ended("notAuthenticated", 0)]
  /\ UNCHANGED <<now, refreshToken, accessToken, idToken, cognitoToken, tokenExpiresAt,
                 _authenticated, _refreshPromise, refreshes, initPc, appPc, failed>>

\* A device calls _apiRequest() (getApplianceState, sendCommand, ...).
ApiRequest(c) ==
  /\ UNCHANGED <<devVars, cmdVars, onTokenRefresh>>
  /\ ApiAvailable
  /\ callers[c].pc = "idle"
  /\ \/ EnsureFresh(c)
     \/ EnsureRefresh(c)
     \/ EnsureNoCredential(c)

\* _refreshPromise with then() in the place of finally(): a rejected refresh
\* stays stored.
PromiseAfterThen(ok) == IF ok THEN 0 ELSE _refreshPromise

\* _refreshPromise once the refresh has settled: the finally() handler.
PromiseAfterSettle(ok) == 0

\* _refreshAccessToken() throws (either step): the promise is rejected, the guard
\* released, and everybody awaiting it resumes with the error.
RefreshFails(s) ==
  /\ refreshes' = [refreshes EXCEPT ![s] = IdleSlot]
  /\ _refreshPromise' = PromiseAfterSettle(FALSE)
  /\ callers' = Resumed(callers, s, FALSE)
  /\ _authenticated' = (IF ReactiveWaiter(s) THEN FALSE ELSE _authenticated)
  /\ appPc' = AppResumed(s)
  /\ failed' = TRUE
  /\ UNCHANGED <<now, initPc>>

\* The refresh-grant request answered with a status that is not ok.
GrantFailed(s) ==
  /\ UNCHANGED <<devVars, cmdVars, onTokenRefresh>>
  /\ refreshes[s].phase = "grant"
  /\ RefreshFails(s)
  /\ UNCHANGED <<refreshToken, accessToken, idToken, cognitoToken, tokenExpiresAt>>

\* The refresh-grant response stored with whatever refresh_token it has.
GrantSucceededReplacing(s, a, i, r, e) ==
  /\ UNCHANGED <<devVars, cmdVars>>
  /\ refreshes[s].phase = "grant"
  /\ accessToken' = a
  /\ idToken' = i
  /\ refreshToken' = r
  /\ onTokenRefresh' = r
  /\ tokenExpiresAt' = now + (IF e # 0 THEN e ELSE DEFAULT_EXPIRES_IN)
  /\ refreshes' = [refreshes EXCEPT ![s].phase = "exchange", ![s].sentId = i]
  /\ UNCHANGED <<now, cognitoToken, _authenticated, _refreshPromise, initPc, appPc,
                 callers, failed>>

\* The refresh-grant request answered: access_token a, id_token i, refresh_token
\* r (0: the field is missing; the tokens of one response are of one issue g),
\* expires_in e. The tokens are stored, a new refresh token is handed to
\* onTokenRefresh(), and the exchange is sent with the new id token.
GrantSucceeded(s, a, i, r, e) ==
  /\ UNCHANGED <<devVars, cmdVars>>
  /\ refreshes[s].phase = "grant"
  /\ accessToken' = a
  /\ idToken' = i
  /\ refreshToken' = (IF r # 0 THEN r ELSE refreshToken)
  /\ onTokenRefresh' = (IF r # 0 THEN r ELSE onTokenRefresh)
  /\ tokenExpiresAt' = now + (IF e # 0 THEN e ELSE DEFAULT_EXPIRES_IN)
  /\ refreshes' = [refreshes EXCEPT ![s].phase = "exchange", ![s].sentId = i]
  /\ UNCHANGED <<now, cognitoToken, _authenticated, _refreshPromise, initPc, appPc,
                 callers, failed>>

\* Phase 2 of the refresh: the exchange answered with a token.
ExchangeSucceeded(s) ==
  /\ UNCHANGED <<devVars, cmdVars, onTokenRefresh>>
  /\ refreshes[s].phase = "exchange"
  /\ refreshes[s].sentId # 0
  /\ cognitoToken' = CognitoFor(refreshes[s].sentId)
  /\ _authenticated' = TRUE
  /\ refreshes' = [refreshes EXCEPT ![s] = IdleSlot]
  /\ _refreshPromise' = PromiseAfterSettle(TRUE)
  /\ callers' = Resumed(callers, s, TRUE)
  /\ appPc' = AppResumed(s)
  /\ failed' = FALSE
  /\ UNCHANGED <<now, refreshToken, accessToken, idToken, tokenExpiresAt, initPc>>

\* Phase 2 of the refresh: the exchange failed, and the token of the last
\* exchange is dropped.
ExchangeFailedClearing(s) ==
  /\ UNCHANGED <<devVars, cmdVars, onTokenRefresh>>
  /\ refreshes[s].phase = "exchange"
  /\ RefreshFails(s)
  /\ cognitoToken' = 0
  /\ UNCHANGED <<refreshToken, accessToken, idToken, tokenExpiresAt>>

\* Phase 2 of the refresh: the exchange failed (status, or no
\* cognitoUser.Token).
ExchangeFailed(s) ==
  /\ UNCHANGED <<devVars, cmdVars, onTokenRefresh>>
  /\ refreshes[s].phase = "exchange"
  /\ RefreshFails(s)
  /\ UNCHANGED <<refreshToken, accessToken, idToken, cognitoToken, tokenExpiresAt>>

AuthFailure(st) == st = 401 \/ st = 403

\* How a call ends on a response that is no authorization failure.
Outcome(st) == IF st = 200 THEN "ok" ELSE "apiErr"

\* Level 0 that takes every failure status for an authorization failure.
ApiResponse0AnyFailure(c, st) ==
  /\ UNCHANGED <<devVars, cmdVars, onTokenRefresh>>
  /\ callers[c].pc = "fetch0"
  /\ UNCHANGED <<now, refreshToken, accessToken, idToken, cognitoToken, tokenExpiresAt,
                 initPc, appPc>>
  /\ IF st # 200
     THEN /\ _refreshPromise # 0 \/ refreshToken = 0 \/ FreeSlots # {}
          /\ refreshes' = _safeRefresh.refreshes
          /\ _refreshPromise' = _safeRefresh.promise
          /\ IF _safeRefresh.slot = 0
             THEN \* rejected at once: the catch block
                  /\ callers' = [callers EXCEPT ![c] = Ended("refreshErr", 0)]
                  /\ _authenticated' = FALSE
                  /\ failed' = TRUE
             ELSE /\ callers' = [callers EXCEPT
                                   ![c] = Awaiting("reauth", _safeRefresh.slot)]
                  /\ UNCHANGED <<_authenticated, failed>>
     ELSE /\ callers' = [callers EXCEPT ![c] = Ended(Outcome(st), st)]
          /\ UNCHANGED <<_authenticated, _refreshPromise, refreshes, failed>>

\* _apiRequest(), level 0: the first response.
ApiResponse0(c, st) ==
  /\ UNCHANGED <<devVars, cmdVars, onTokenRefresh>>
  /\ callers[c].pc = "fetch0"
  /\ UNCHANGED <<now, refreshToken, accessToken, idToken, cognitoToken, tokenExpiresAt,
                 initPc, appPc>>
  /\ IF AuthFailure(st)
     THEN /\ _refreshPromise # 0 \/ refreshToken = 0 \/ FreeSlots # {}
          /\ refreshes' = _safeRefresh.refreshes
          /\ _refreshPromise' = _safeRefresh.promise
          /\ IF _safeRefresh.slot = 0
             THEN \* rejected at once: the catch block
                  /\ callers' = [callers EXCEPT ![c] = Ended("refreshErr", 0)]
                  /\ _authenticated' = FALSE
                  /\ failed' = TRUE
             ELSE /\ callers' = [callers EXCEPT
                                   ![c] = Awaiting("reauth", _safeRefresh.slot)]
                  /\ UNCHANGED <<_authenticated, failed>>
     ELSE /\ callers' = [callers EXCEPT ![c] = Ended(Outcome(st), st)]
          /\ UNCHANGED <<_authenticated, _refreshPromise, refreshes, failed>>

\* Level 1 without "this._authenticated = false" before the throw.
ApiResponse1KeepsFlag(c, st) ==
  /\ UNCHANGED <<devVars, cmdVars, onTokenRefresh>>
  /\ callers[c].pc = "fetch1"
  /\ callers' = [callers EXCEPT
                   ![c] = Ended(IF AuthFailure(st) THEN "authFailed" ELSE Outcome(st), st)]
  /\ failed' = (failed \/ AuthFailure(st))
  /\ UNCHANGED <<now, refreshToken, accessToken, idToken, cognitoToken, tokenExpiresAt,
                 _authenticated, _refreshPromise, refreshes, initPc, appPc>>

\* _apiRequest(), level 1: the response to the one retry.
ApiResponse1(c, st) ==
  /\ UNCHANGED <<devVars, cmdVars, onTokenRefresh>>
  /\ callers[c].pc = "fetch1"
  /\ UNCHANGED <<now, refreshToken, accessToken, idToken, cognitoToken, tokenExpiresAt,
                 _refreshPromise, refreshes, initPc, appPc>>
  /\ IF AuthFailure(st)
     THEN /\ callers' = [callers EXCEPT ![c] = Ended("authFailed", st)]
          /\ _authenticated' = FALSE
          /\ failed' = TRUE
     ELSE /\ callers' = [callers EXCEPT ![c] = Ended(Outcome(st), st)]
          /\ UNCHANGED <<_authenticated, failed>>

\* Date.now() advances.
Tick ==
  /\ UNCHANGED <<devVars, cmdVars, onTokenRefresh>>
  /\ now < MaxNow
  /\ now' = now + 1
  /\ UNCHANGED <<refreshToken, accessToken, idToken, cognitoToken, tokenExpiresAt,
                 _authenticated, _refreshPromise, refreshes, initPc, appPc, callers,
                 failed>>

StoredTokens == {0, 1}

\* The tokens of a refresh-grant response are new ones: of the issue after the
\* one held.  The cloud grants issues up to MaxToken.
NextIssue == (IF idToken # 0 THEN idToken ELSE accessToken) + 1

\* The bodies of an ok refresh-grant response of issue g: complete and rotating
\* the refresh token, complete and not rotating it, without id_token, without
\* access_token.
GrantResponses(g) ==
  {[a |-> g, i |-> g, r |-> g], [a |-> g, i |-> g, r |-> 0],
   [a |-> g, i |-> 0, r |-> 0], [a |-> 0, i |-> g, r |-> 0]}

NextAuth ==
  \/ \E a \in StoredTokens, i \in StoredTokens, r \in StoredTokens : AppInitializeApi(a, i, r)
  \/ InitExchangeSucceeded
  \/ InitExchangeFailed
  \/ \E c \in Callers : ApiRequest(c)
  \/ \E s \in Slots : GrantFailed(s)
  \/ \E s \in Slots, e \in ExpiresIn :
        /\ NextIssue <= MaxToken
        /\ \E f \in GrantResponses(NextIssue) : GrantSucceeded(s, f.a, f.i, f.r, e)
  \/ \E s \in Slots : ExchangeSucceeded(s)
  \/ \E s \in Slots : ExchangeFailed(s)
  \/ \E c \in Callers, st \in Statuses : ApiResponse0(c, st)
  \/ \E c \in Callers, st \in Statuses : ApiResponse1(c, st)
  \/ Tick

SpecAuth == Init /\ [][NextAuth]_vars

\* ------------------------------------------------------------- the device
\* AirconDevice of drivers/aircon/device.js: the poll timer, the capability
\* writes and the settle timeout each write leaves behind.  One step runs a
\* callback up to its next await on the network.

\* ---- the errors getApplianceState() rejects with, as strings of characters
\* new Error(`Authentication failed (refresh error): ${refreshError.message}`)
RefreshError(message) ==
  (
    <<"A", "u", "t", "h", "e", "n", "t", "i", "c", "a", "t", "i", "o", "n",
      " ", "f", "a", "i", "l", "e", "d", " ", "(", "r", "e", "f", "r", "e",
      "s", "h", " ", "e", "r", "r", "o", "r", ")", ":", " ">>
  ) \o message

\* new Error(`Authentication failed after refresh: ${response.status} - ${text}`)
AfterRefresh(status, text) ==
  (
    <<"A", "u", "t", "h", "e", "n", "t", "i", "c", "a", "t", "i", "o", "n",
      " ", "f", "a", "i", "l", "e", "d", " ", "a", "f", "t", "e", "r", " ",
      "r", "e", "f", "r", "e", "s", "h", ":", " ">>
  ) \o status \o <<" ", "-", " ">> \o text

\* new Error(`API request failed: ${response.status} - ${text}`)
RequestFailed(status, text) ==
  (
    <<"A", "P", "I", " ", "r", "e", "q", "u", "e", "s", "t", " ", "f", "a",
      "i", "l", "e", "d", ":", " ">>
  ) \o status \o <<" ", "-", " ">> \o text

\* new Error(`Token refresh failed: ${response.status} - ${text}`)
TokenRefreshFailed(status, text) ==
  (
    <<"T", "o", "k", "e", "n", " ", "r", "e", "f", "r", "e", "s", "h", " ",
      "f", "a", "i", "l", "e", "d", ":", " ">>
  ) \o status \o <<" ", "-", " ">> \o text

\* new Error('No refresh token available. Please re-authenticate via Repair.')
NoRefreshToken ==
  <<"N", "o", " ", "r", "e", "f", "r", "e", "s", "h", " ", "t", "o", "k",
    "e", "n", " ", "a", "v", "a", "i", "l", "a", "b", "l", "e", ".", " ",
    "P", "l", "e", "a", "s", "e", " ", "r", "e", "-", "a", "u", "t", "h",
    "e", "n", "t", "i", "c", "a", "t", "e", " ", "v", "i", "a", " ", "R",
    "e", "p", "a", "i", "r", ".">>

\* the TypeError of a fetch() that did not reach the server
FetchFailed ==
  <<"f", "e", "t", "c", "h", " ", "f", "a", "i", "l", "e", "d">>

\* the body texts of the error responses
Unauthorized == <<"U", "n", "a", "u", "t", "h", "o", "r", "i", "z", "e", "d">>
Forbidden == <<"F", "o", "r", "b", "i", "d", "d", "e", "n">>
InvalidGrant ==
  <<"i", "n", "v", "a", "l", "i", "d", "_", "g", "r", "a", "n", "t">>
ServerError == <<"e", "r", "r", "o", "r">>

\* What a poll can fail with: the request got no answer, the API answered
\* with a server error, a 401 met no refresh credential, the refresh grant
\* was refused, the retry after the refresh got a 401 or a 403 again.
PollErrors ==
  "network" :> FetchFailed
    @@ "api500" :> RequestFailed(<<"5", "0", "0">>, ServerError)
    @@ "noCredential" :> RefreshError(NoRefreshToken)
    @@ "refreshFailed" :>
         RefreshError(TokenRefreshFailed(<<"4", "0", "0">>, InvalidGrant))
    @@ "retry401" :> AfterRefresh(<<"4", "0", "1">>, Unauthorized)
    @@ "retry403" :> AfterRefresh(<<"4", "0", "3">>, Forbidden)

\* String.prototype.includes()
includes(message, searchString) ==
  \E i \in 1..(Len(message) - Len(searchString) + 1) :
    SubSeq(message, i, i + Len(searchString) - 1) = searchString

\* the errors of a poll after which _pollDeviceState() calls setUnavailable()
AuthenticationFailed ==
  {e \in DOMAIN PollErrors :
     \/ includes(PollErrors[e], <<"a", "u", "t", "h">>)
     \/ includes(PollErrors[e], <<"4", "0", "1">>)}

PollOutcomes == {"state", "none"} \cup DOMAIN PollErrors

\* _getApi(): the cached instance, or else the app's, which is cached from then on
_getApi == IF _api # 0 THEN _api ELSE appApi

\* _pollDeviceState() up to its await of getApplianceState(): skipped while
\* Date.now() < skip, unavailable without an authenticated api, else a fetch.
_pollDeviceState(skip, auth) ==
  IF time < skip
    THEN UNCHANGED <<polls, available>>
    ELSE IF ~auth
      THEN polls' = polls /\ available' = FALSE
      ELSE polls < MaxPolls /\ polls' = polls + 1 /\ available' = available

\* The timers are all that is left to run: nothing else of it changes.
TimerFrame ==
  UNCHANGED <<time, writes, capability, lastWrite, starting, deleted, appApi, repairing>>

\* the setInterval() callback of _startPolling()
PollTick(auth) ==
  /\ pollDue # 0
  /\ pollDue = time
  /\ pollDue' = time + DEFAULT_POLL_INTERVAL
  /\ _pollDeviceState(_skipPollUntil, auth)
  /\ _api' = (IF time < _skipPollUntil THEN _api ELSE _getApi)
  /\ UNCHANGED <<_skipPollUntil, settleTimers, strayTimers>>
  /\ TimerFrame
  /\ UNCHANGED <<authVars, cmdVars>>

\* the callback of a setInterval() timer that _pollTimer no longer refers to
StrayTick(i, auth) ==
  /\ i \in 1..Len(strayTimers)
  /\ strayTimers[i] = time
  /\ strayTimers' = [strayTimers EXCEPT ![i] = time + DEFAULT_POLL_INTERVAL]
  /\ _pollDeviceState(_skipPollUntil, auth)
  /\ _api' = (IF time < _skipPollUntil THEN _api ELSE _getApi)
  /\ UNCHANGED <<_skipPollUntil, settleTimers, pollDue>>
  /\ TimerFrame
  /\ UNCHANGED <<authVars, cmdVars>>

\* getApplianceState() returns to _pollDeviceState(): the state is applied by
\* _updateCapabilities(), whatever _skipPollUntil is by now.
PollResponse(res) ==
  /\ polls > 0
  /\ polls' = polls - 1
  /\ capability' = IF res = "state" THEN "polled" ELSE capability
  /\ available' = CASE res = "state" -> TRUE
                    [] res \in AuthenticationFailed -> FALSE
                    [] OTHER -> available
  /\ UNCHANGED <<time, _skipPollUntil, pollDue, settleTimers, writes, lastWrite>>
  /\ UNCHANGED lifeVars
  /\ UNCHANGED <<authVars, cmdVars>>

\* a capability listener runs its _set...() up to the await of sendCommand()
WriteStart ==
  /\ ~deleted
  /\ writes + Len(settleTimers) < MaxWrites
  /\ writes' = writes + 1
  /\ _api' = _getApi
  /\ UNCHANGED <<time, _skipPollUntil, pollDue, settleTimers, polls, capability,
                 available, lastWrite>>
  /\ UNCHANGED <<strayTimers, starting, deleted, appApi, repairing>>
  /\ UNCHANGED <<authVars, cmdVars>>

\* sendCommand() returns: the listener sets _skipPollUntil, leaves a timeout
\* and resolves, and the platform stores the written value.  When it throws,
\* the listener rejects and nothing is set.
WriteDone(ok) ==
  /\ writes > 0
  /\ writes' = writes - 1
  /\ IF ok
       THEN /\ _skipPollUntil' = time + SETTLE_DELAY
            /\ settleTimers' = Append(settleTimers, time + SETTLE_DELAY)
            /\ capability' = "written"
            /\ lastWrite' = time
       ELSE UNCHANGED <<_skipPollUntil, settleTimers, capability, lastWrite>>
  /\ UNCHANGED <<time, pollDue, polls, available>>
  /\ UNCHANGED lifeVars
  /\ UNCHANGED <<authVars, cmdVars>>

\* the setTimeout() callback of a write that polls and leaves _skipPollUntil
\* as it is
SettleTimeoutKeeping(auth) ==
  /\ settleTimers # <<>>
  /\ Head(settleTimers) = time
  /\ settleTimers' = Tail(settleTimers)
  /\ _skipPollUntil' = _skipPollUntil
  /\ _pollDeviceState(_skipPollUntil, auth)
  /\ _api' = (IF time < _skipPollUntil THEN _api ELSE _getApi)
  /\ UNCHANGED <<pollDue, strayTimers>>
  /\ TimerFrame
  /\ UNCHANGED <<authVars, cmdVars>>

\* the setTimeout() callback of a write: clears _skipPollUntil and polls
SettleTimeout(auth) ==
  /\ settleTimers # <<>>
  /\ Head(settleTimers) = time
  /\ settleTimers' = Tail(settleTimers)
  /\ _skipPollUntil' = 0
  /\ _pollDeviceState(0, auth)
  /\ _api' = _getApi
  /\ UNCHANGED <<pollDue, strayTimers>>
  /\ TimerFrame
  /\ UNCHANGED <<authVars, cmdVars>>

\* time passes, but not past a timer that is due
TimePasses ==
  /\ time < MaxTime
  /\ pollDue = 0 \/ pollDue > time
  /\ \A i \in 1..Len(settleTimers) : settleTimers[i] > time
  /\ \A i \in 1..Len(strayTimers) : strayTimers[i] > time
  /\ time' = time + 1
  /\ UNCHANGED <<_skipPollUntil, pollDue, settleTimers, polls, writes, capability,
                 available, lastWrite>>
  /\ UNCHANGED lifeVars
  /\ UNCHANGED <<authVars, cmdVars>>

\* setInterval() in _startPolling(): the timers left once _pollTimer is
\* overwritten; a timer it referred to is not cleared and keeps firing.
Overwritten(timer, strays) == IF timer # 0 THEN Append(strays, timer) ELSE strays

\* _startPolling() up to its first await on the network. Its initial poll is
\* skipped, or finds no authenticated api, and the interval timer is set at
\* once; or the poll awaits its fetch.
_startPolling(timer, strays, skip, auth) ==
  IF time < skip \/ ~auth
    THEN /\ pollDue' = time + DEFAULT_POLL_INTERVAL
         /\ strayTimers' = Overwritten(timer, strays)
         /\ starting' = starting
         /\ available' = (IF time < skip THEN available ELSE FALSE)
    ELSE /\ pollDue' = timer
         /\ strayTimers' = strays
         /\ starting' = starting + 1
         /\ available' = available

\* The initial poll of a _startPolling() gets its answer; the state is applied
\* and the interval timer is set.
StartPollResponse(res) ==
  /\ starting > 0
  /\ starting' = starting - 1
  /\ capability' = IF res = "state" THEN "polled" ELSE capability
  /\ available' = CASE res = "state" -> TRUE
                    [] res \in AuthenticationFailed -> FALSE
                    [] OTHER -> available
  /\ pollDue' = time + DEFAULT_POLL_INTERVAL
  /\ strayTimers' = Overwritten(pollDue, strayTimers)
  /\ UNCHANGED <<time, _skipPollUntil, settleTimers, polls, writes, lastWrite>>
  /\ UNCHANGED <<deleted, appApi, _api, repairing>>
  /\ UNCHANGED <<authVars, cmdVars>>

\* onSettings() with poll_interval among the changed keys: _stopPolling(),
\* then _startPolling().
OnSettings(auth) ==
  /\ ~deleted
  /\ Len(strayTimers) + starting < MaxStarts
  /\ _startPolling(0, strayTimers, _skipPollUntil, auth)
  /\ _api' = (IF time < _skipPollUntil THEN _api ELSE _getApi)
  /\ UNCHANGED <<time, _skipPollUntil, settleTimers, polls, writes, capability, lastWrite>>
  /\ UNCHANGED <<deleted, appApi, repairing>>
  /\ UNCHANGED <<authVars, cmdVars>>

\* app.setTokens() of a pairing or repair session: _initializeApi() replaces
\* app.api by a new HonApi. mine: it is the repair of this device, whose
\* handler goes on to call device.onInit().
AppSetTokens(mine) ==
  /\ ~deleted
  /\ ~repairing
  /\ appApi <= MaxRepairs
  /\ appApi' = appApi + 1
  /\ repairing' = mine
  /\ UNCHANGED <<time, _skipPollUntil, pollDue, settleTimers, polls, writes, capability,
                 available, lastWrite>>
  /\ UNCHANGED <<strayTimers, starting, deleted, _api>>
  /\ UNCHANGED <<authVars, cmdVars>>

\* The repair handler calls device.onInit(): _api, _pollTimer and
\* _skipPollUntil are reset and _startPolling() runs again.
OnRepairInit(auth) ==
  /\ repairing
  /\ ~deleted
  /\ Len(strayTimers) + starting < MaxStarts
  /\ repairing' = FALSE
  /\ _skipPollUntil' = 0
  /\ _api' = appApi
  /\ _startPolling(0, Overwritten(pollDue, strayTimers), 0, auth)
  /\ UNCHANGED <<time, settleTimers, polls, writes, capability, lastWrite>>
  /\ UNCHANGED <<deleted, appApi>>
  /\ UNCHANGED <<authVars, cmdVars>>

\* onDeleted(): _stopPolling() clears the timer _pollTimer refers to.
OnDeleted ==
  /\ ~deleted
  /\ deleted' = TRUE
  /\ pollDue' = 0
  /\ UNCHANGED <<time, _skipPollUntil, settleTimers, polls, writes, capability,
                 available, lastWrite>>
  /\ UNCHANGED <<strayTimers, starting, appApi, _api, repairing>>
  /\ UNCHANGED <<authVars, cmdVars>>

NextDevice ==
  \/ \E auth \in BOOLEAN : PollTick(auth)
  \/ \E res \in PollOutcomes : PollResponse(res)
  \/ WriteStart
  \/ \E ok \in BOOLEAN : WriteDone(ok)
  \/ \E auth \in BOOLEAN : SettleTimeout(auth)
  \/ TimePasses
  \/ \E i \in 1..MaxStarts + 1, auth \in BOOLEAN : StrayTick(i, auth)
  \/ \E res \in PollOutcomes : StartPollResponse(res)
  \/ \E auth \in BOOLEAN : OnSettings(auth)
  \/ \E mine \in BOOLEAN : AppSetTokens(mine)
  \/ \E auth \in BOOLEAN : OnRepairInit(auth)
  \/ OnDeleted

SpecDevice == Init /\ [][NextDevice]_vars

\* ---- the polls and the writes of a device that lives on, with timers that
\* fire: the clock runs, a setInterval() or setTimeout() callback that is due
\* runs, and the writes stop early enough for their timeouts to come due
\* before the clock of the model ends.
NextSettle ==
  \/ \E auth \in BOOLEAN : PollTick(auth)
  \/ \E res \in PollOutcomes : PollResponse(res)
  \/ WriteStart
  \/ \E ok \in BOOLEAN : time + SETTLE_DELAY <= MaxTime /\ WriteDone(ok)
  \/ \E auth \in BOOLEAN : SettleTimeout(auth)
  \/ TimePasses

SpecSettle ==
  /\ Init
  /\ [][NextSettle]_vars
  /\ WF_vars(TimePasses)
  /\ WF_vars(\E auth \in BOOLEAN : PollTick(auth))
  /\ WF_vars(\E auth \in BOOLEAN : SettleTimeout(auth))

\* ------------------------------------------------------ the set commands
\* Temperatures are in half degrees, so that 22.5 is a value; the limits of
\* _setTargetTemperature() and the anti-freeze display value are in degrees.
MIN_TEMP == 16
MAX_TEMP == 30
ANTIFREEZE_TEMP == 10

HON_TO_HVAC_MODE ==
  0 :> "auto" @@ 1 :> "cool" @@ 2 :> "dry" @@ 3 :> "dry" @@ 4 :> "heat"
    @@ 5 :> "fan_only" @@ 6 :> "fan_only"

\* HVAC_MODE_TO_HON with fan_only sent as the first of its two wire values
HVAC_MODE_TO_HON_First ==
  "auto" :> 0 @@ "cool" :> 1 @@ "heat" :> 4 @@ "dry" :> 2 @@ "fan_only" :> 5
    @@ "10_heating" :> 4

HVAC_MODE_TO_HON ==
  "auto" :> 0 @@ "cool" :> 1 @@ "heat" :> 4 @@ "dry" :> 2 @@ "fan_only" :> 6
    @@ "10_heating" :> 4

HON_TO_FAN_SPEED ==
  1 :> "high" @@ 2 :> "medium" @@ 3 :> "low" @@ 4 :> "auto" @@ 5 :> "auto"

FAN_SPEED_TO_HON == "high" :> 1 @@ "medium" :> 2 @@ "low" :> 3 @@ "auto" :> 5

HVAC_MODE_TO_PROGRAM ==
  "auto" :> "IOT_AUTO" @@ "cool" :> "IOT_COOL" @@ "heat" :> "IOT_HEAT"
    @@ "dry" :> "IOT_DRY" @@ "fan_only" :> "IOT_FAN"
    @@ "10_heating" :> "IOT_10_HEATING"

\* table[key] with no fallback: a key the table lacks gives no value
OrUndefined(table, key, other) == IF key \in DOMAIN table THEN table[key] ELSE "null"

\* table[key] || other, table[key] ?? other: no value of the tables is falsy
Or(table, key, other) == IF key \in DOMAIN table THEN table[key] ELSE other

\* getCapabilityValue(...) || other, for a capability that holds a string
OrString(value, other) == IF value = "null" THEN other ELSE value

\* String.prototype.toUpperCase() on the program names that occur
toUpperCase(s) ==
  CASE s = "iot_auto" -> "IOT_AUTO"
    [] OTHER -> s

\* Math.round() of a number of half degrees, in degrees: halves go up
Round(h) == (h + 1) \div 2

\* the clamp without its lower limit
ClampAbove(h) == IF h > 2 * MAX_TEMP THEN 2 * MAX_TEMP ELSE h

\* "if (value < 16) value = 16; if (value > 30) value = 30;"
Clamp(h) ==
  IF h < 2 * MIN_TEMP THEN 2 * MIN_TEMP
  ELSE IF h > 2 * MAX_TEMP THEN 2 * MAX_TEMP
  ELSE h

\* JSON.stringify() of a request body leaves out the keys that hold undefined
Json(obj) == [k \in {n \in DOMAIN obj : obj[n] # "undefined"} |-> obj[k]]

\* HonApi.sendCommand(): the body it posts
sendCommand(commandName, parameters, options) ==
  [commandName |-> commandName,
   programName |->
     IF commandName = "startProgram"
       THEN toUpperCase(OrString(IF options.programName = "undefined"
                                   THEN "null" ELSE options.programName,
                                 "iot_auto"))
       ELSE "undefined",
   parameters |-> Json(parameters),
   ancillaryParameters |-> Json(options.ancillaryParameters)]

\* ---- the command definitions of an appliance
Optional(v) ==
  [mandatory |-> 0, typology |-> "range", fixedValue |-> "undefined",
   defaultValue |-> v]
Fixed(v, d) ==
  [mandatory |-> 1, typology |-> "fixed", fixedValue |-> v, defaultValue |-> d]
Ranged(d) ==
  [mandatory |-> 1, typology |-> "range", fixedValue |-> "undefined",
   defaultValue |-> d]

\* commands.settings.setParameters of the appliances modelled: a parameter
\* the set requests overwrite, one that occurs in each shape a definition can
\* have, the anti-freeze flag, and two ancillary parameters.
Schemas ==
  { [parameters |->
       "windSpeed" :> Ranged("5") @@ "muteStatus" :> mute
         @@ "10degreeHeatingStatus" :> frost,
     ancillaryParameters |->
       "programRules" :> Fixed("rules", "undefined") @@ "remoteActionable" :> remote] :
      mute \in {Optional("0"), Fixed("0", "undefined"),
                Fixed("undefined", "undefined"), Ranged("0"), Ranged("undefined")},
      frost \in {Optional("0"), Ranged("0")},
      remote \in {Fixed("1", "undefined"), Fixed("undefined", "1"), Ranged("1"),
                  Ranged("undefined")} }

\* the mandatoryParams object _fetchCommandDefinitions() builds
mandatoryParams(parametersSection) ==
  LET names == {n \in DOMAIN parametersSection :
                  /\ parametersSection[n].mandatory = 1
                  /\ \/ parametersSection[n].typology = "fixed"
                     \/ parametersSection[n].defaultValue # "undefined"}
  IN [n \in names |->
        IF parametersSection[n].typology = "fixed"
          THEN parametersSection[n].fixedValue
          ELSE parametersSection[n].defaultValue]

\* the ancillaryParams object _fetchCommandDefinitions() builds
ancillaryParams(ancillarySection) ==
  LET fixed(n) == /\ ancillarySection[n].typology = "fixed"
                  /\ ancillarySection[n].fixedValue # "undefined"
      names == {n \in DOMAIN ancillarySection \ {"programRules"} :
                  fixed(n) \/ ancillarySection[n].defaultValue # "undefined"}
  IN [n \in names |->
        IF fixed(n) THEN ancillarySection[n].fixedValue
        ELSE ancillarySection[n].defaultValue]

\* getCommandDefinitions() answers _fetchCommandDefinitions(), which stores
\* the two objects.  (When a request of it fails it stores nothing.)
_fetchCommandDefinitions(commands) ==
  /\ schema = NoSchema
  /\ cmd' = [cmd EXCEPT
               !.schema = commands,
               !._mandatoryParams = mandatoryParams(commands.parameters),
               !._ancillaryParams = ancillaryParams(commands.ancillaryParameters),
               !.thrown = "none"]
  /\ UNCHANGED <<authVars, devVars>>

\* The fields of a polled appliance state that the set commands read back
\* (machMode, onOffStatus or a wind direction of -1, tempSel or windSpeed of
\* 0, heating of -1: the field is absent).  An appliance in anti-freeze mode
\* reports heating at 10 degrees; the appliances of this set report no wind
\* direction and no eco pilot, and the one that is off reports the automatic
\* program.
States ==
  {state \in [machMode : 0..6, tempSel : {2 * ANTIFREEZE_TEMP, 44},
               windSpeed : {3, 5}, heating : {0, 1}, onOffStatus : {0, 1},
               windDirectionHorizontal : {-1}, windDirectionVertical : {-1},
               humanSensingStatus : {-1}] :
     /\ state.heating = 1 =>
          state.machMode = 4 /\ state.tempSel = 2 * ANTIFREEZE_TEMP
     /\ state.onOffStatus = 0 =>
          state.machMode = 0 /\ state.tempSel = 44 /\ state.windSpeed = 5}

HON_TO_ECO_PILOT == 0 :> "off" @@ 1 :> "avoid" @@ 2 :> "follow"

\* the swing mode _updateCapabilities() reads from the two wind directions
\* (Number(undefined) is NaN, which equals neither 7 nor 8)
SwingOf(horizontal, vertical) ==
  IF horizontal = 7 /\ vertical = 8 THEN "both"
  ELSE IF horizontal = 7 THEN "horizontal"
  ELSE IF vertical = 8 THEN "vertical"
  ELSE "off"

\* _updateCapabilities(state), for a poll that answers while no command is in
\* flight
_updateCapabilities(state) ==
  /\ sent = NoCommand
  /\ cmd' = [cmd EXCEPT
               !.targetTemp =
                 IF state.heating = 1 THEN 2 * ANTIFREEZE_TEMP
                 ELSE IF state.tempSel # 0 /\ state.tempSel >= 2 * MIN_TEMP
                   THEN state.tempSel
                 ELSE targetTemp,
               !.hvacMode =
                 IF state.machMode = -1 THEN hvacMode
                 ELSE IF state.heating = 1 THEN "10_heating"
                 ELSE Or(HON_TO_HVAC_MODE, state.machMode, "auto"),
               !.fanSpeed =
                 IF state.windSpeed = 0 THEN fanSpeed
                 ELSE Or(HON_TO_FAN_SPEED, state.windSpeed, "auto"),
               !.onoff =
                 IF state.onOffStatus = -1 THEN onoff
                 ELSE IF state.onOffStatus = 1 THEN "true" ELSE "false",
               !.swingMode =
                 SwingOf(state.windDirectionHorizontal, state.windDirectionVertical),
               !.ecoPilot =
                 IF state.humanSensingStatus = -1 THEN ecoPilot
                 ELSE Or(HON_TO_ECO_PILOT, state.humanSensingStatus, "off"),
               !.thrown = "none"]
  /\ UNCHANGED <<authVars, devVars>>

\* a set request may run: one command at a time, and as many as leave timers
Idle == sent = NoCommand /\ Len(settleTimers) < MaxWrites

\* a set request throws before it has sent anything
Throw(error) ==
  /\ cmd' = [cmd EXCEPT !.thrown = error]
  /\ UNCHANGED <<authVars, devVars>>

\* a set request reaches "await api.sendCommand(...)"; temp is the currentTemp
\* it keeps for afterwards
Send(commandName, parameters, programName, temp) ==
  /\ cmd' = [cmd EXCEPT
               !.sent = sendCommand(commandName, parameters,
                                    [programName |-> programName,
                                     ancillaryParameters |-> _ancillaryParams]),
               !.currentTemp = temp,
               !.thrown = "none"]
  /\ writes' = writes + 1
  /\ _api' = _getApi
  /\ UNCHANGED <<time, _skipPollUntil, pollDue, settleTimers, polls, capability,
                 available, lastWrite>>
  /\ UNCHANGED <<strayTimers, starting, deleted, appApi, repairing>>
  /\ UNCHANGED authVars

\* the params object _setTargetTemperature(value) builds
TemperatureParams(value) ==
  LET currentMode == OrString(hvacMode, "auto")
      machMode == Or(HVAC_MODE_TO_HON, currentMode, 0)
      windSpeed == Or(FAN_SPEED_TO_HON, OrString(fanSpeed, "auto"), 4)
  IN Put(Put(Put(Put(_mandatoryParams,
       "onOffStatus", "1"),
       "tempSel", ToString(Round(Clamp(value)))),
       "machMode", ToString(machMode)),
       "windSpeed", ToString(windSpeed))

\* _setTargetTemperature(value) without the anti-freeze check
_setTargetTemperatureUnchecked(value) ==
  /\ Idle
  /\ Send("settings", TemperatureParams(value), "undefined", 0)

_setTargetTemperature(value) ==
  LET currentMode == OrString(hvacMode, "auto")
  IN /\ Idle
     /\ IF currentMode = "10_heating"
          THEN Throw("Temperature is fixed in anti-freeze mode")
          ELSE Send("settings", TemperatureParams(value), "undefined", 0)

\* _setOnOff(value) with a power-off that names the mode as power-on does
_setOnOffWithMode(value) ==
  LET currentMode == OrString(hvacMode, "auto")
      programName == Or(HVAC_MODE_TO_PROGRAM, currentMode, "IOT_AUTO")
      machMode == Or(HVAC_MODE_TO_HON, currentMode, 0)
  IN /\ Idle
     /\ Send(IF value THEN "startProgram" ELSE "stopProgram",
             Put(Put(_mandatoryParams, "onOffStatus", IF value THEN "1" ELSE "0"),
                 "machMode", ToString(machMode)),
             programName, 0)

_setOnOff(value) ==
  LET currentMode == OrString(hvacMode, "auto")
      programName == Or(HVAC_MODE_TO_PROGRAM, currentMode, "IOT_AUTO")
      machMode == Or(HVAC_MODE_TO_HON, currentMode, 0)
  IN /\ Idle
     /\ IF value
          THEN Send("startProgram",
                    Put(Put(_mandatoryParams, "onOffStatus", "1"),
                        "machMode", ToString(machMode)),
                    programName, 0)
          ELSE Send("stopProgram", Put(_mandatoryParams, "onOffStatus", "0"),
                    "undefined", 0)

_setHvacMode(value) ==
  LET temp == IF targetTemp = 0 \/ targetTemp < 2 * MIN_TEMP
                THEN 2 * MIN_TEMP ELSE targetTemp
      windSpeed == Or(FAN_SPEED_TO_HON, OrString(fanSpeed, "auto"), 5)
  IN /\ Idle
     /\ IF value = "10_heating"
          THEN Send("startProgram",
                    Put(Put(Put(_mandatoryParams, "onOffStatus", "1"),
                        "machMode", "4"),
                        "10degreeHeatingStatus", "1"),
                    "IOT_10_HEATING", 2 * ANTIFREEZE_TEMP)
          ELSE IF value \notin DOMAIN HVAC_MODE_TO_HON
            THEN Throw("Unknown HVAC mode")
          ELSE Send("startProgram",
                    Put(Put(Put(Put(Put(_mandatoryParams,
                        "onOffStatus", "1"),
                        "machMode", ToString(HVAC_MODE_TO_HON[value])),
                        "tempSel", ToString(Round(temp))),
                        "windSpeed", ToString(windSpeed)),
                        "10degreeHeatingStatus", "0"),
                    Or(HVAC_MODE_TO_PROGRAM, value, "IOT_AUTO"), temp)

\* _setFanSpeed(value) that sends the four parameters alone
_setFanSpeedBare(value) ==
  LET temp == IF targetTemp = 0 THEN 2 * MIN_TEMP ELSE targetTemp
      machMode == Or(HVAC_MODE_TO_HON, OrString(hvacMode, "auto"), 0)
  IN /\ Idle
     /\ IF value \notin DOMAIN FAN_SPEED_TO_HON
          THEN Throw("Unknown fan speed")
          ELSE Send("settings",
                    Put(Put(Put(Put(Empty,
                      "onOffStatus", "1"),
                      "tempSel", ToString(Round(temp))),
                      "machMode", ToString(machMode)),
                      "windSpeed", ToString(Or(FAN_SPEED_TO_HON, value, 0))),
                    "undefined", 0)

_setFanSpeed(value) ==
  LET temp == IF targetTemp = 0 THEN 2 * MIN_TEMP ELSE targetTemp
      currentMode == OrString(hvacMode, "auto")
      machMode == Or(HVAC_MODE_TO_HON, currentMode, 0)
      params == Put(Put(Put(Put(_mandatoryParams,
                  "onOffStatus", "1"),
                  "tempSel", ToString(Round(temp))),
                  "machMode", ToString(machMode)),
                  "windSpeed", ToString(Or(FAN_SPEED_TO_HON, value, 0)))
  IN /\ Idle
     /\ IF value \notin DOMAIN FAN_SPEED_TO_HON
          THEN Throw("Unknown fan speed")
          ELSE Send("settings",
                    IF currentMode = "10_heating"
                      THEN Put(params, "10degreeHeatingStatus", "1")
                      ELSE params,
                    "undefined", 0)

\* the wind directions of vertical and horizontal taken for each other
SWING_TO_HON_Crossed ==
  "off" :> <<"0", "5">> @@ "vertical" :> <<"7", "5">>
    @@ "horizontal" :> <<"0", "8">> @@ "both" :> <<"7", "8">>

\* the wind directions _setSwingMode(value) sends
SWING_TO_HON ==
  "off" :> <<"0", "5">> @@ "vertical" :> <<"0", "8">>
    @@ "horizontal" :> <<"7", "5">> @@ "both" :> <<"7", "8">>

_setSwingMode(value) ==
  LET temp == IF targetTemp = 0 THEN 2 * MIN_TEMP ELSE targetTemp
      currentMode == OrString(hvacMode, "auto")
      machMode == Or(HVAC_MODE_TO_HON, currentMode, 0)
      windSpeed == Or(FAN_SPEED_TO_HON, OrString(fanSpeed, "auto"), 4)
      params == Put(Put(Put(Put(Put(Put(_mandatoryParams,
                  "onOffStatus", "1"),
                  "tempSel", ToString(Round(temp))),
                  "machMode", ToString(machMode)),
                  "windSpeed", ToString(windSpeed)),
                  "windDirectionHorizontal",
                    Or(SWING_TO_HON, value, <<"0", "5">>)[1]),
                  "windDirectionVertical",
                    Or(SWING_TO_HON, value, <<"0", "5">>)[2])
  IN /\ Idle
     /\ IF value \notin DOMAIN SWING_TO_HON
          THEN Throw("Unknown swing mode")
          ELSE Send("settings",
                    IF currentMode = "10_heating"
                      THEN Put(params, "10degreeHeatingStatus", "1")
                      ELSE params,
                    "undefined", 0)

_setToggle(paramName, apiValue) ==
  LET currentMode == OrString(hvacMode, "auto")
      machMode == Or(HVAC_MODE_TO_HON, currentMode, 0)
      temp == IF targetTemp = 0 \/ targetTemp < 2 * MIN_TEMP
                THEN 2 * MIN_TEMP ELSE targetTemp
      windSpeed == Or(FAN_SPEED_TO_HON, OrString(fanSpeed, "auto"), 5)
      params == Put(Put(Put(Put(_mandatoryParams,
                  "onOffStatus", IF onoff = "true" THEN "1" ELSE "0"),
                  "machMode", ToString(machMode)),
                  "tempSel", ToString(Round(temp))),
                  "windSpeed", ToString(windSpeed))
  IN /\ Idle
     /\ Send("settings",
             Put(IF currentMode = "10_heating"
                   THEN Put(params, "10degreeHeatingStatus", "1")
                   ELSE params,
                 paramName, apiValue),
             "undefined", 0)

ECO_PILOT_TO_HON == "off" :> "0" @@ "avoid" :> "1" @@ "follow" :> "2"

\* the listener of hon_eco_pilot
SetEcoPilot(value) == _setToggle("humanSensingStatus", Or(ECO_PILOT_TO_HON, value, "0"))

\* the switches modelled: one that is sent as it is, one that is inverted
TOGGLE_CAPABILITIES ==
  "hon_silent_mode" :> [param |-> "muteStatus", inverted |-> FALSE]
    @@ "hon_echo_mode" :> [param |-> "echoStatus", inverted |-> TRUE]

\* the listener of a switch
SetSwitch(switch, value) ==
  LET config == TOGGLE_CAPABILITIES[switch]
      apiValue == IF config.inverted THEN (IF ~value THEN "1" ELSE "0")
                  ELSE (IF value THEN "1" ELSE "0")
  IN _setToggle(config.param, apiValue)

\* sendCommand() returns or throws, and the request stores its values, sets
\* _skipPollUntil, leaves its timeout and resolves either way.
CommandDoneOptimistic(ok) ==
  /\ sent # NoCommand
  /\ writes' = writes - 1
  /\ cmd' = [cmd EXCEPT
               !.sent = NoCommand,
               !.currentTemp = 0,
               !.targetTemp = IF currentTemp # 0 THEN currentTemp ELSE targetTemp,
               !.onoff = IF currentTemp # 0 THEN "true" ELSE onoff,
               !.thrown = IF ok THEN "none" ELSE "Request failed"]
  /\ _skipPollUntil' = time + SETTLE_DELAY
  /\ settleTimers' = Append(settleTimers, time + SETTLE_DELAY)
  /\ capability' = "written"
  /\ lastWrite' = time
  /\ UNCHANGED <<time, pollDue, polls, available>>
  /\ UNCHANGED lifeVars
  /\ UNCHANGED authVars

\* sendCommand() returns: _setHvacMode() stores the temperature it used and
\* the power state, the request sets _skipPollUntil, leaves its timeout and
\* resolves.  When sendCommand() throws, the request rejects with that error.
CommandDone(ok) ==
  /\ sent # NoCommand
  /\ writes' = writes - 1
  /\ IF ok
       THEN /\ cmd' = [cmd EXCEPT
                         !.sent = NoCommand,
                         !.currentTemp = 0,
                         !.targetTemp =
                           IF currentTemp # 0 THEN currentTemp ELSE targetTemp,
                         !.onoff = IF currentTemp # 0 THEN "true" ELSE onoff,
                         !.thrown = "none"]
            /\ _skipPollUntil' = time + SETTLE_DELAY
            /\ settleTimers' = Append(settleTimers, time + SETTLE_DELAY)
            /\ capability' = "written"
            /\ lastWrite' = time
       ELSE /\ cmd' = [cmd EXCEPT
                         !.sent = NoCommand,
                         !.currentTemp = 0,
                         !.thrown = "Request failed"]
            /\ UNCHANGED <<_skipPollUntil, settleTimers, capability, lastWrite>>
  /\ UNCHANGED <<time, pollDue, polls, available>>
  /\ UNCHANGED lifeVars
  /\ UNCHANGED authVars

\* the values the set requests are made with
TempRequests == {10, 45, 70}
ModeRequests == DOMAIN HVAC_MODE_TO_PROGRAM \cup {"turbo"}
FanRequests == DOMAIN FAN_SPEED_TO_HON \cup {"turbo"}
SwingRequests == {"both", "diagonal"}
EcoRequests == {"follow"}

NextCommand ==
  \/ \E commands \in Schemas : _fetchCommandDefinitions(commands)
  \/ \E state \in States : _updateCapabilities(state)
  \/ \E value \in TempRequests : _setTargetTemperature(value)
  \/ \E value \in BOOLEAN : _setOnOff(value)
  \/ \E value \in ModeRequests : _setHvacMode(value)
  \/ \E value \in FanRequests : _setFanSpeed(value)
  \/ \E value \in SwingRequests : _setSwingMode(value)
  \/ \E value \in EcoRequests : SetEcoPilot(value)
  \/ \E switch \in DOMAIN TOGGLE_CAPABILITIES : SetSwitch(switch, TRUE)
  \/ \E ok \in BOOLEAN : CommandDone(ok)

SpecCommand == Init /\ [][NextCommand]_vars

\* ---- the poll alone, with answers that lack fields
\* Polled states in which any of the fields may be absent (-1, or 0 for
\* tempSel and windSpeed).
PartialStates ==
  [machMode : {-1, 1, 4}, tempSel : {0, 45}, windSpeed : {0, 3},
   heating : {-1, 0, 1}, onOffStatus : {-1, 1},
   windDirectionHorizontal : {-1, 7}, windDirectionVertical : {-1, 8},
   humanSensingStatus : {-1}]

NextPoll == \E state \in PartialStates : _updateCapabilities(state)

SpecPoll == Init /\ [][NextPoll]_vars

\* ---- the poll alone, with answers that hold values no table knows
\* a wire value that none of HON_TO_HVAC_MODE, HON_TO_FAN_SPEED and
\* HON_TO_ECO_PILOT has as a key
UnknownValue == 9

\* Polled states in which the mode, the fan speed and the eco pilot may hold
\* an unknown value (and the fan speed or the eco pilot may be absent).
WireStates ==
  [machMode : {1, UnknownValue}, tempSel : {45}, windSpeed : {0, 3, UnknownValue},
   heating : {0, 1}, onOffStatus : {0, 1},
   windDirectionHorizontal : {-1, 7}, windDirectionVertical : {8},
   humanSensingStatus : {-1, 2, UnknownValue}]

NextWire == \E state \in WireStates : _updateCapabilities(state)

SpecWire == Init /\ [][NextWire]_vars

\* ------------------------------------------- one request, one mapping
\* What a set request does with every temperature, and what the mode tables
\* do with every value: the device holds any mode, and arg is the
\* temperature requested (in half degrees), a wire machMode or a capability
\* mode; a swing mode or a polled horizontal wind direction; a fan speed or a
\* polled windSpeed; a switch of the device or a switch card of the driver
\* with the value requested (x: 1 true, 0 false).
Modes == {"auto", "cool", "heat", "dry", "fan_only"}

\* the wind directions a poll may report (-1: the field is absent)
Directions == {-1, 0, 5, 7, 8}

\* Number(string) of a wire value (-1: NaN)
Number(string) ==
  IF \E n \in 0..9 : ToString(n) = string
    THEN CHOOSE n \in 0..9 : ToString(n) = string
    ELSE -1

\* the switch cards of the driver modelled: the cards of the two switches
TOGGLE_ACTIONS_Plain ==
  "set_hon_silent_mode" :>
      [capability |-> "hon_silent_mode", param |-> "muteStatus", inverted |-> FALSE]
    @@ "set_hon_echo_mode" :>
      [capability |-> "hon_echo_mode", param |-> "echoStatus", inverted |-> FALSE]

TOGGLE_ACTIONS ==
  "set_hon_silent_mode" :>
      [capability |-> "hon_silent_mode", param |-> "muteStatus", inverted |-> FALSE]
    @@ "set_hon_echo_mode" :>
      [capability |-> "hon_echo_mode", param |-> "echoStatus", inverted |-> TRUE]

\* the value _updateCapabilities() gives a switch for a polled wire value
PolledSwitch(switch, wire) ==
  LET val == Number(wire) = 1
  IN IF TOGGLE_CAPABILITIES[switch].inverted THEN ~val ELSE val

Args ==
  {[fn |-> "temperature", x |-> h, s |-> "none"] : h \in 0..2 * MaxTemperature}
    \cup {[fn |-> "wire", x |-> v, s |-> "none"] : v \in DOMAIN HON_TO_HVAC_MODE}
    \cup {[fn |-> "mode", x |-> 0, s |-> m] : m \in Modes}
    \cup {[fn |-> "swing", x |-> 0, s |-> v] : v \in DOMAIN SWING_TO_HON}
    \cup {[fn |-> "horizontal", x |-> h, s |-> "none"] : h \in Directions}
    \cup {[fn |-> "fan", x |-> 0, s |-> v] : v \in DOMAIN FAN_SPEED_TO_HON}
    \cup {[fn |-> "speed", x |-> v, s |-> "none"] : v \in DOMAIN HON_TO_FAN_SPEED}
    \cup {[fn |-> "switch", x |-> v, s |-> c] :
             v \in {0, 1}, c \in DOMAIN TOGGLE_CAPABILITIES}
    \cup {[fn |-> "card", x |-> v, s |-> c] :
             v \in {0, 1}, c \in DOMAIN TOGGLE_ACTIONS}

InitFunctions ==
  /\ InitSession
  /\ InitDevice
  /\ \E mode \in {"null", "10_heating"} \cup Modes, a \in Args :
       cmd = [NoRequest EXCEPT !.hvacMode = mode, !.arg = a]

\* the temperature is requested
SetTemperature ==
  /\ arg.fn = "temperature"
  /\ _setTargetTemperature(arg.x)

\* wire value -> capability mode (_updateCapabilities) -> wire value (the set
\* requests)
WireRoundTrip ==
  /\ arg.fn = "wire"
  /\ LET newMode == Or(HON_TO_HVAC_MODE, arg.x, "auto")
     IN cmd' = [cmd EXCEPT
                  !.out = [fn |-> "wire", x |-> Or(HVAC_MODE_TO_HON, newMode, 0),
                           s |-> newMode]]
  /\ UNCHANGED <<authVars, devVars>>

\* capability mode -> wire value (the set requests) -> capability mode
\* (_updateCapabilities)
ModeRoundTrip ==
  /\ arg.fn = "mode"
  /\ LET machMode == Or(HVAC_MODE_TO_HON, arg.s, 0)
     IN cmd' = [cmd EXCEPT
                  !.out = [fn |-> "mode", x |-> machMode,
                           s |-> Or(HON_TO_HVAC_MODE, machMode, "auto")]]
  /\ UNCHANGED <<authVars, devVars>>

\* swing mode -> wire pair (_setSwingMode) -> swing mode (_updateCapabilities);
\* out.x is the pair sent, horizontal in the tens
SwingRoundTrip ==
  /\ arg.fn = "swing"
  /\ LET sentPair == SWING_TO_HON[arg.s]
         horizontal == Number(sentPair[1])
         vertical == Number(sentPair[2])
     IN cmd' = [cmd EXCEPT
                  !.out = [fn |-> "swing", x |-> 10 * horizontal + vertical,
                           s |-> SwingOf(horizontal, vertical)]]
  /\ UNCHANGED <<authVars, devVars>>

\* a poll reports the horizontal direction of arg with any vertical one
\* (out.x), and _updateCapabilities() reads the swing mode
PolledSwing(vertical) ==
  /\ arg.fn = "horizontal"
  /\ cmd' = [cmd EXCEPT
               !.out = [fn |-> "horizontal", x |-> vertical,
                        s |-> SwingOf(arg.x, vertical)]]
  /\ UNCHANGED <<authVars, devVars>>

\* fan speed -> windSpeed (_setFanSpeed) -> fan speed (_updateCapabilities)
FanRoundTrip ==
  /\ arg.fn = "fan"
  /\ LET windSpeed == ToString(FAN_SPEED_TO_HON[arg.s])
     IN cmd' = [cmd EXCEPT
                  !.out = [fn |-> "fan", x |-> Number(windSpeed),
                           s |-> Or(HON_TO_FAN_SPEED, Number(windSpeed), "auto")]]
  /\ UNCHANGED <<authVars, devVars>>

\* windSpeed -> fan speed (_updateCapabilities) -> windSpeed (_setFanSpeed)
SpeedRoundTrip ==
  /\ arg.fn = "speed"
  /\ LET speed == Or(HON_TO_FAN_SPEED, arg.x, "auto")
     IN cmd' = [cmd EXCEPT
                  !.out = [fn |-> "speed", x |-> FAN_SPEED_TO_HON[speed],
                           s |-> speed]]
  /\ UNCHANGED <<authVars, devVars>>

\* the listener of a switch sends a wire value (out.s), and a poll that
\* reports it gives the switch its value (out.x)
SwitchRoundTrip ==
  /\ arg.fn = "switch"
  /\ LET config == TOGGLE_CAPABILITIES[arg.s]
         value == arg.x = 1
         apiValue == IF config.inverted THEN (IF ~value THEN "1" ELSE "0")
                     ELSE (IF value THEN "1" ELSE "0")
     IN cmd' = [cmd EXCEPT
                  !.out = [fn |-> "switch",
                           x |-> IF PolledSwitch(arg.s, apiValue) THEN 1 ELSE 0,
                           s |-> apiValue]]
  /\ UNCHANGED <<authVars, devVars>>

\* the run listener of a switch card sends a wire value (out.s), and a poll
\* that reports it gives the card's capability its value (out.x)
CardRoundTrip ==
  /\ arg.fn = "card"
  /\ LET config == TOGGLE_ACTIONS[arg.s]
         enabled == IF arg.x = 1 THEN "true" ELSE "false"
         value == enabled = "true"
         apiValue == IF config.inverted THEN (IF ~value THEN "1" ELSE "0")
                     ELSE (IF value THEN "1" ELSE "0")
     IN cmd' = [cmd EXCEPT
                  !.out = [fn |-> "card",
                           x |-> IF PolledSwitch(config.capability, apiValue)
                                   THEN 1 ELSE 0,
                           s |-> apiValue]]
  /\ UNCHANGED <<authVars, devVars>>

NextFunctions ==
  \/ SetTemperature
  \/ \E ok \in BOOLEAN : CommandDone(ok)
  \/ WireRoundTrip
  \/ ModeRoundTrip
  \/ SwingRoundTrip
  \/ \E vertical \in Directions : PolledSwing(vertical)
  \/ FanRoundTrip
  \/ SpeedRoundTrip
  \/ SwitchRoundTrip
  \/ CardRoundTrip

SpecFunctions == InitFunctions /\ [][NextFunctions]_vars

\* ------------------------------------------------- pairing and matching
\* The account lists two appliances; the user pairs one of them, the device
\* starts, and _fetchCommandDefinitions() looks its appliance up in the list.
\* Identifiers are strings of characters; arg.s is the list of the account's
\* macAddress values, arg.x the appliance paired (0: none yet), out what the
\* step that ran last has left.
Identifiers ==
  UNION {[1..n -> {"a", "b", "#"}] : n \in 1..MaxIdLen}

\* String.prototype.split(separator)
RECURSIVE split(_, _)
split(str, separator) ==
  IF \A i \in 1..Len(str) : str[i] # separator
    THEN <<str>>
    ELSE LET i == CHOOSE j \in 1..Len(str) :
                    /\ str[j] = separator
                    /\ \A k \in 1..(j - 1) : str[k] # separator
         IN <<SubSeq(str, 1, i - 1)>> \o split(SubSeq(str, i + 1, Len(str)), separator)

InitPairing ==
  /\ InitSession
  /\ InitDevice
  /\ \E first \in Identifiers, second \in Identifiers :
       cmd = [NoRequest EXCEPT
                !.arg = [fn |-> "account", x |-> 0, s |-> <<first, second>>],
                !.out = [fn |-> "none", x |-> 0, s |-> <<>>]]

\* onPairListDevices() offers every appliance with data.id = macAddress, and
\* the user adds appliance k
onPairListDevices(k) ==
  /\ out.fn = "none"
  /\ LET fullMac == arg.s[k]
         macAddress == split(fullMac, "#")[1]
     IN cmd' = [cmd EXCEPT !.arg.x = k,
                           !.out = [fn |-> "paired", x |-> 0, s |-> macAddress]]
  /\ UNCHANGED <<authVars, devVars>>

\* onInit() of the device added: this.deviceId
onInitDeviceId ==
  /\ out.fn = "paired"
  /\ LET rawId == out.s
     IN cmd' = [cmd EXCEPT !.out = [fn |-> "deviceId", x |-> 0,
                                    s |-> split(rawId, "#")[1]]]
  /\ UNCHANGED <<authVars, devVars>>

\* appliances.find() of _fetchCommandDefinitions() that compares the
\* macAddress as the account lists it
findRaw(appliances, deviceId) ==
  IF \E j \in 1..Len(appliances) : appliances[j] = deviceId
    THEN CHOOSE j \in 1..Len(appliances) :
           /\ appliances[j] = deviceId
           /\ \A k \in 1..(j - 1) : appliances[k] # deviceId
    ELSE 0

\* appliances.find(a => a.macAddress?.split('#')[0] === this.deviceId): the
\* index of the first match (0: undefined)
find(appliances, deviceId) ==
  IF \E j \in 1..Len(appliances) : split(appliances[j], "#")[1] = deviceId
    THEN CHOOSE j \in 1..Len(appliances) :
           /\ split(appliances[j], "#")[1] = deviceId
           /\ \A k \in 1..(j - 1) : split(appliances[k], "#")[1] # deviceId
    ELSE 0

\* _fetchCommandDefinitions() has the account list and looks the appliance up
FindAppliance ==
  /\ out.fn = "deviceId"
  /\ cmd' = [cmd EXCEPT !.out = [fn |-> "appliance", x |-> find(arg.s, out.s),
                                 s |-> out.s]]
  /\ UNCHANGED <<authVars, devVars>>

NextPairing ==
  \/ \E k \in 1..2 : onPairListDevices(k)
  \/ onInitDeviceId
  \/ FindAppliance

SpecPairing == InitPairing /\ [][NextPairing]_vars

\* ------------------------------------------- the app and its instances
\* The app alone: repairs and restarts make HonApi instances, every instance
\* made may refresh, and the callbacks of every instance write the settings.
AppFrame ==
  UNCHANGED <<sessionVars, cmdVars, time, _skipPollUntil, pollDue, settleTimers,
              polls, writes, capability, available, lastWrite, strayTimers,
              starting, deleted, appApi, _api, repairing>>

\* app._initializeApi() up to its first await, on the app a: the instance it
\* makes from the settings becomes app.api
_initializeApi(a) ==
  LET accessToken_ == a.settings.accessToken
      idToken_ == a.settings.idToken
      refreshToken_ == a.settings.refreshToken
      k == a.created + 1
      made == [NoInstance EXCEPT !.refreshToken = refreshToken_]
  IN IF refreshToken_ = 0 /\ accessToken_ = 0 THEN a
     ELSE [a EXCEPT
             !.created = k,
             !.api = k,
             !.instances[k] =
               IF accessToken_ # 0 /\ idToken_ # 0
                 THEN [made EXCEPT !.pc = "init", !.accessToken = accessToken_,
                                   !.idToken = idToken_]
               ELSE IF refreshToken_ # 0 THEN [made EXCEPT !.pc = "grant"]
               ELSE [made EXCEPT !.pc = "idle"]]

\* app.setTokens(accessToken, idToken, refreshToken) of a pairing or repair
\* session, with the tokens the login has issued (rotate: with a refresh
\* token)
AppSetTokensStored(rotate) ==
  /\ app.created < MaxInstances
  /\ app.issued < MaxIssue
  /\ LET g == app.issued + 1
     IN app' = _initializeApi(
                 [app EXCEPT !.issued = g,
                             !.settings.accessToken = g,
                             !.settings.idToken = g,
                             !.settings.refreshToken = IF rotate THEN g ELSE @])
  /\ AppFrame

\* a poll that finds app.api null has the app run _initializeApi() again
Reinitialize ==
  /\ app.created < MaxInstances
  /\ app.created > 0
  /\ app.api = 0
  /\ app' = _initializeApi(app)
  /\ AppFrame

\* the exchange of initializeWithTokens() of instance k answers; when it
\* fails, _initializeApi() falls back to _safeRefresh() if it read a refresh
\* token, and sets app.api to null if not
InitExchangeDone(k, ok) ==
  /\ app.instances[k].pc = "init"
  /\ app' = IF ok THEN [app EXCEPT !.instances[k].pc = "idle"]
            ELSE IF app.instances[k].refreshToken # 0
              THEN [app EXCEPT !.instances[k].pc = "grant"]
            ELSE [app EXCEPT !.instances[k].pc = "idle", !.api = 0]
  /\ AppFrame

\* a request on instance k (the app's, or one a device has cached) finds the
\* tokens stale: _safeRefresh() sends the refresh-grant request
InstanceRefresh(k) ==
  /\ app.instances[k].pc = "idle"
  /\ app.instances[k].refreshToken # 0
  /\ app' = [app EXCEPT !.instances[k].pc = "grant"]
  /\ AppFrame

\* the refresh-grant request of instance k answers: the instance stores the
\* tokens, onTokenRefresh() and onTokensUpdated() write them to the settings,
\* and the exchange is sent.  When it fails, _refreshAccessToken() throws.
InstanceGranted(k, ok, rotate) ==
  /\ app.instances[k].pc = "grant"
  /\ ok => app.issued < MaxIssue
  /\ LET g == app.issued + 1
     IN app' = IF ~ok THEN [app EXCEPT !.instances[k].pc = "idle"]
               ELSE [app EXCEPT
                       !.issued = g,
                       !.instances[k].pc = "exchange",
                       !.instances[k].accessToken = g,
                       !.instances[k].idToken = g,
                       !.instances[k].refreshToken = IF rotate THEN g ELSE @,
                       !.settings.refreshToken = IF rotate THEN g ELSE @,
                       !.settings.accessToken = g,
                       !.settings.idToken = g]
  /\ AppFrame

\* the exchange of the refresh of instance k answers
InstanceExchangeDone(k) ==
  /\ app.instances[k].pc = "exchange"
  /\ app' = [app EXCEPT !.instances[k].pc = "idle"]
  /\ AppFrame

NextApp ==
  \/ \E rotate \in BOOLEAN : AppSetTokensStored(rotate)
  \/ Reinitialize
  \/ \E k \in 1..MaxInstances, ok \in BOOLEAN : InitExchangeDone(k, ok)
  \/ \E k \in 1..MaxInstances : InstanceRefresh(k)
  \/ \E k \in 1..MaxInstances, ok \in BOOLEAN, rotate \in BOOLEAN :
        InstanceGranted(k, ok, rotate)
  \/ \E k \in 1..MaxInstances : InstanceExchangeDone(k)

SpecApp == Init /\ [][NextApp]_vars

\* ---------------------------------------------------------------- the claims

\* The refreshes whose requests are on the wire.
InFlight == {s \in Slots : refreshes[s].phase # "idle"}

\* Caller c awaits a refresh.
AwaitsRefresh(c) == callers[c].pc \in {"ensure", "reauth"}

\* C1. Single-flight refresh: at any moment at most one refresh is in flight (so
\* one refresh-grant request, then one token-exchange request), every caller that
\* awaits a refresh awaits that one, and when it succeeds all of them send their
\* request in the same step, with the credential that refresh produced.
C1_SingleFlight ==
  /\ [](/\ Cardinality(InFlight) <= 1
        /\ \A c \in Callers :
             AwaitsRefresh(c) => callers[c].await = _refreshPromise /\ _refreshPromise \in InFlight)
  /\ [][\A c \in Callers :
          (AwaitsRefresh(c) /\ callers'[c].pc \in {"fetch0", "fetch1"})
            => /\ \A d \in Callers : AwaitsRefresh(d) => callers'[d].pc \in {"fetch0", "fetch1"}
               /\ idToken' # 0
               /\ cognitoToken' = CognitoFor(idToken')]_vars

\* Both callers await the one refresh in flight.
C1_Witness ==
  /\ \A c \in Callers : callers[c].pc = "ensure" /\ callers[c].await = _refreshPromise
  /\ _refreshPromise \in InFlight

\* C2. Token pairing: whenever isAuthenticated() is true (the only states in
\* which _ensureAuthenticated() lets a request out with the tokens held), the
\* cognitoToken held is the one the exchange returned for the idToken held.
C2_TokenPairing == isAuthenticated => cognitoToken = CognitoFor(idToken)

\* C3. A call makes at most two attempts: a first response that is 401/403
\* leads to one refresh and one retry, nothing follows the retry, and a retry
\* answered 401/403 ends the call as failed with _authenticated = false.
C3_RetryOnce ==
  [][\A c \in Callers :
       /\ callers[c].pc = "fetch0" => callers'[c].pc \in {"fetch0", "reauth", "idle"}
       /\ callers[c].pc = "reauth" => callers'[c].pc \in {"reauth", "fetch1", "idle"}
       /\ callers[c].pc = "fetch1" => callers'[c].pc \in {"fetch1", "idle"}
       /\ (callers[c].pc = "fetch1" /\ callers'[c].pc = "idle" /\ AuthFailure(callers'[c].last))
            => callers'[c].result = "authFailed" /\ ~_authenticated']_vars

\* A call ended on a second 401/403.
C3_Witness ==
  \E c \in Callers : callers[c].result = "authFailed" /\ AuthFailure(callers[c].last)

\* The settle delay after the last completed write has not elapsed yet.
Settling == lastWrite >= 0 /\ time < lastWrite + SETTLE_DELAY

\* C4. After a write has completed, no polled state is applied to the
\* capability storage until the settle delay after it has elapsed: until then
\* the storage holds the written value, whenever the poll was started.
C4_NoPolledStateInDelay == Settling => capability = "written"

\* The callback of a settle timeout runs in this step.
SettleFires == Len(settleTimers') < Len(settleTimers)

\* C5. A completed write sets _skipPollUntil to now + the settle delay and
\* leaves one timeout for that moment; and while the settle delay of the last
\* completed write is running, no timeout of an earlier write fires (which
\* clears _skipPollUntil and polls).
C5_LaterDeadlineKept ==
  /\ [][Len(settleTimers') > Len(settleTimers)
         => /\ _skipPollUntil' = time + SETTLE_DELAY
            /\ settleTimers' = Append(settleTimers, time + SETTLE_DELAY)]_vars
  /\ [][SettleFires => ~Settling]_vars

\* A step in which the refresh of some slot settles.
Settles == \E s \in Slots : refreshes[s].phase # "idle" /\ refreshes'[s].phase = "idle"

\* C6. The guard is released when a refresh fails: _refreshPromise never holds a
\* refresh that has settled, it is null right after a failed one, and a call that
\* needs a refresh while none is in flight sends a new refresh-grant request.
C6_GuardReleased ==
  /\ [](_refreshPromise # 0 => _refreshPromise \in InFlight)
  /\ [][(Settles /\ failed') => _refreshPromise' = 0]_vars
  /\ [][\A c \in Callers :
          (~AwaitsRefresh(c) /\ callers'[c].pc \in {"ensure", "reauth"} /\ _refreshPromise = 0)
            => /\ refreshes[callers'[c].await].phase = "idle"
               /\ refreshes'[callers'[c].await].phase = "grant"]_vars

\* After a failed refresh, a caller awaits a new refresh whose grant request is out.
C6_Witness ==
  /\ failed
  /\ \E c \in Callers : /\ callers[c].pc = "ensure"
                        /\ refreshes[callers[c].await].phase = "grant"

\* C7. After a failed refresh (or a second 401/403) isAuthenticated() is false
\* until a later refresh or initialization succeeds.
C7_FailedNotAuthenticated == failed => ~isAuthenticated

\* Caller c enters _apiRequest() in this step.
Calls(c) == callers[c].pc = "idle" /\ callers'[c] # callers[c]

\* C8. After the session has failed with a refresh token stored, the next API
\* call awaits a refresh before it sends its request.
C8_FailedRetried ==
  [][\A c \in Callers :
       (Calls(c) /\ failed /\ refreshToken # 0) => callers'[c].pc = "ensure"]_vars

\* The session as the flag and the two tokens say, the clock apart.
HoldsSession == _authenticated /\ cognitoToken # 0 /\ idToken # 0

\* C9 as stated. _ensureAuthenticated() returns at once exactly when the session
\* is authenticated and now < expiresAt - buffer; otherwise, with a refresh token
\* stored, it awaits a refresh.
C9_StrictlyBefore ==
  [][\A c \in Callers :
       Calls(c) =>
         /\ callers'[c].pc = "fetch0"
              <=> (HoldsSession /\ now < tokenExpiresAt - TOKEN_EXPIRY_BUFFER)
         /\ (~(HoldsSession /\ now < tokenExpiresAt - TOKEN_EXPIRY_BUFFER) /\ refreshToken # 0)
              => callers'[c].pc = "ensure"]_vars

\* C9 as amended. _ensureAuthenticated() returns at once exactly when the session
\* is authenticated and now <= expiresAt - buffer; otherwise, with a refresh
\* token stored, it awaits a refresh (a new one, or the one in flight).
C9_NotAfter ==
  [][\A c \in Callers :
       Calls(c) =>
         /\ callers'[c].pc = "fetch0"
              <=> (HoldsSession /\ now <= tokenExpiresAt - TOKEN_EXPIRY_BUFFER)
         /\ (~(HoldsSession /\ now <= tokenExpiresAt - TOKEN_EXPIRY_BUFFER) /\ refreshToken # 0)
              => callers'[c].pc = "ensure"]_vars

\* A call went straight to its request at now = expiresAt - buffer.
C9_Witness == \E c \in Callers : callers[c].pc = "fetch0" /\ callers[c].edge

\* C10. A call made while the session is not valid and no refresh token is stored
\* ends with the authentication error, sends nothing and changes neither a token
\* nor the authenticated flag nor the refresh guard.
C10_NoCredential ==
  [][\A c \in Callers :
       (Calls(c) /\ ~isAuthenticated /\ refreshToken = 0)
         => /\ callers'[c] = Ended("notAuthenticated", 0)
            /\ UNCHANGED <<refreshToken, accessToken, idToken, cognitoToken, tokenExpiresAt,
                           _authenticated, _refreshPromise, refreshes>>]_vars

\* A call ended with the authentication error; the session is not valid, holds
\* no refresh token, and no refresh request is out.
C10_Witness ==
  \E c \in Callers : /\ callers[c].result = "notAuthenticated"
                     /\ refreshToken = 0
                     /\ ~isAuthenticated
                     /\ InFlight = {}

\* C11. Whenever the session is authenticated, accessToken, idToken,
\* cognitoToken and refreshToken are all set.
C11_AllFourTokens ==
  isAuthenticated
    => accessToken # 0 /\ idToken # 0 /\ cognitoToken # 0 /\ refreshToken # 0

\* A timer callback of the device runs in this step: a settle timeout or the
\* interval timer _pollTimer refers to.
TimerFires == SettleFires \/ (pollDue # 0 /\ pollDue' > pollDue)

\* C12. After onDeleted() the device has no interval timer, and no settle
\* timeout or interval timer callback of it runs.
C12_NoCallbackAfterDeleted ==
  /\ [](deleted => pollDue = 0)
  /\ [][deleted => ~TimerFires]_vars

\* The poll interval timers that are active.
ActiveTimers == (IF pollDue # 0 THEN 1 ELSE 0) + Len(strayTimers)

\* C13. At most one poll interval timer is active.
C13_SingleTimer == ActiveTimers <= 1

\* A step in which the device starts a poll's fetch or a command.
Operates == polls' > polls \/ starting' > starting \/ writes' > writes

\* C14. Every poll and command of the device goes to the instance the app
\* holds at that moment.
C14_UsesNewInstance == [][Operates => _api' = appApi]_vars

\* C15: a target-temperature set request made while the device's current mode
\* is anti-freeze (10_heating) fails with an error, sends no command to the
\* cloud, leaves _skipPollUntil as it is and schedules no settle-delay timer.
SetsTemperature == \E value \in TempRequests : _setTargetTemperature(value)

C15_AntiFreezeRejects ==
  [][SetsTemperature /\ hvacMode = "10_heating"
       => /\ thrown' = "Temperature is fixed in anti-freeze mode"
          /\ sent' = NoCommand
          /\ writes' = writes
          /\ _skipPollUntil' = _skipPollUntil
          /\ settleTimers' = settleTimers]_vars

\* the request was rejected in anti-freeze mode while an earlier command's
\* settle delay was running
C15_Witness ==
  /\ thrown = "Temperature is fixed in anti-freeze mode"
  /\ hvacMode = "10_heating"
  /\ _skipPollUntil # 0
  /\ settleTimers # <<>>

\* C16: for every target-temperature set request v outside anti-freeze mode
\* the tempSel sent is v clamped to [16, 30]: 16 for a value below 16, 30
\* for a value above 30, and the value itself, rounded to an integer, inside.
TempSelOf(h, n) ==
  /\ h < 2 * 16 => n = 16
  /\ h > 2 * 30 => n = 30
  /\ (h >= 2 * 16 /\ h <= 2 * 30) => (2 * n - h) \in -1..1

C16_Clamped ==
  (arg.fn = "temperature" /\ sent.commandName = "settings")
    => \E n \in 0..MaxTemperature + 1 :
         /\ sent.parameters["tempSel"] = ToString(n)
         /\ TempSelOf(arg.x, n)

\* 35 degrees was requested in cool mode and 30 is on its way
C16_Witness ==
  /\ arg.fn = "temperature"
  /\ arg.x = 2 * 35
  /\ hvacMode = "cool"
  /\ sent.commandName = "settings"
  /\ sent.parameters["tempSel"] = "30"

\* C19: the HVAC mode mapping round trip.  Every wire machMode v in 0..6,
\* mapped to its capability mode and back to a wire value, yields v again,
\* except 3, which yields 2 (dry), and 5, which yields 6 (fan_only); and every
\* capability mode of auto, cool, heat, dry, fan_only, mapped to the wire and
\* back, yields the same capability mode.
C19_RoundTrip ==
  /\ out.fn = "wire" =>
       out.x = (IF arg.x = 3 THEN 2 ELSE IF arg.x = 5 THEN 6 ELSE arg.x)
  /\ out.fn = "mode" => out.s = arg.s

\* wire value 5 has gone through fan_only and come back as 6
C19_Witness ==
  /\ arg.fn = "wire"
  /\ arg.x = 5
  /\ out.fn = "wire"
  /\ out.s = "fan_only"
  /\ out.x = 6

\* The mandatory parameters of the appliance: the parameters its command
\* definition marks mandatory and gives a value (none before the definition
\* has been fetched), with that value.
ValueOf(param) ==
  IF param.typology = "fixed" THEN param.fixedValue ELSE param.defaultValue

MandatorySet ==
  {n \in DOMAIN schema.parameters :
     /\ schema.parameters[n].mandatory = 1
     /\ ValueOf(schema.parameters[n]) # "undefined"}

\* parameters holds every mandatory parameter, each with its value unless it
\* is one of the parameters set
HasMandatory(parameters, set) ==
  \A n \in MandatorySet :
    /\ n \in DOMAIN parameters
    /\ n \notin set => parameters[n] = ValueOf(schema.parameters[n])

\* C17: a power-off request sends a stopProgram command whose parameters are
\* exactly the appliance's mandatory parameters with onOffStatus set to "0":
\* no machMode, tempSel, windSpeed or other field that is not in the mandatory
\* set, and no programName.
PowerOff == _setOnOff(FALSE)

ProgramOf(X) ==
  CASE X = "auto" -> "IOT_AUTO"
    [] X = "cool" -> "IOT_COOL"
    [] X = "heat" -> "IOT_HEAT"
    [] X = "dry" -> "IOT_DRY"
    [] X = "fan_only" -> "IOT_FAN"
    [] X = "10_heating" -> "IOT_10_HEATING"

StartsFor(X, command) ==
  /\ command.programName = ProgramOf(X)
  /\ X # "10_heating" =>
       /\ "10degreeHeatingStatus" \in DOMAIN command.parameters
       /\ command.parameters["10degreeHeatingStatus"] = "0"

C18_StartClearsAntiFreeze ==
  /\ [][\A X \in DOMAIN HVAC_MODE_TO_PROGRAM :
          _setHvacMode(X) => StartsFor(X, sent')]_vars
  /\ [][_setOnOff(TRUE) => StartsFor(OrString(hvacMode, "auto"), sent')]_vars

\* C20: a fan-speed change to "low" on a device whose current capabilities
\* are mode = cool and target temperature = 22 sends one settings command
\* whose parameters contain windSpeed = "3", machMode = "1", tempSel = "22"
\* and onOffStatus = "1" together with all mandatory parameters, and whose
\* envelope carries all ancillary parameters of the appliance's schema.
FanLow == _setFanSpeed("low") /\ hvacMode = "cool" /\ targetTemp = 2 * 22

FanLowCommand(command) ==
  /\ command.commandName = "settings"
  /\ command.parameters["windSpeed"] = "3"
  /\ command.parameters["machMode"] = "1"
  /\ command.parameters["tempSel"] = "22"
  /\ command.parameters["onOffStatus"] = "1"
  /\ HasMandatory(command.parameters,
                  {"windSpeed", "machMode", "tempSel", "onOffStatus"})

AncillaryValue(param) ==
  IF param.typology = "fixed" /\ param.fixedValue # "undefined"
    THEN param.fixedValue
    ELSE param.defaultValue

AncillarySet ==
  {n \in DOMAIN schema.ancillaryParameters \ {"programRules"} :
     AncillaryValue(schema.ancillaryParameters[n]) # "undefined"}

ApplianceSchemas == IF schema = NoSchema THEN Schemas ELSE {schema}

\* command carries what the definition commands makes mandatory and ancillary
CarriesSchema(command, commands) ==
  LET mandatory == mandatoryParams(commands.parameters)
      ancillary == ancillaryParams(commands.ancillaryParameters)
  IN /\ DOMAIN mandatory \subseteq DOMAIN command.parameters
     /\ DOMAIN ancillary \subseteq DOMAIN command.ancillaryParameters
     /\ \A n \in DOMAIN ancillary : command.ancillaryParameters[n] = ancillary[n]

C21_CarriesSchema ==
  [][sent' # sent /\ sent' # NoCommand
       => \E commands \in ApplianceSchemas : CarriesSchema(sent', commands)]_vars

\* C22: when a poll fails with an authentication failure (a 401/403 that
\* meets no refresh credential or a refused refresh, or a second 401/403 after
\* the refresh and retry) the device is marked unavailable; when it fails with
\* a network error or another API error its availability is left as it was.
AuthFailures == {"noCredential", "refreshFailed", "retry401", "retry403"}

C22_PollFailure ==
  [][\A res \in DOMAIN PollErrors :
       PollResponse(res) \/ StartPollResponse(res)
         => IF res \in AuthFailures THEN ~available'
            ELSE available' = available]_vars

\* C23: a successful poll changes only the capabilities whose wire parameter
\* is present in the fetched state; a capability whose parameter is absent
\* (swing when both wind directions are missing, mode when machMode is
\* missing, ...) keeps the value it had before the poll.
C23_AbsentKept ==
  [][\A state \in PartialStates :
       _updateCapabilities(state)
         => /\ state.onOffStatus = -1 => onoff' = onoff
            /\ state.tempSel = 0 /\ state.heating = -1 => targetTemp' = targetTemp
            /\ state.machMode = -1 => hvacMode' = hvacMode
            /\ state.windSpeed = 0 => fanSpeed' = fanSpeed
            /\ state.windDirectionHorizontal = -1
                 /\ state.windDirectionVertical = -1 => swingMode' = swingMode]_vars

\* C24: a response with a non-success status other than 401/403 makes the API
\* call fail with an error carrying that status, without any refresh, without
\* any retry of the request, and without changing the tokens or the
\* authenticated flag.
C24_NonAuthError ==
  [][\A c \in Callers, st \in Statuses \ {200} :
       ~AuthFailure(st) /\ (ApiResponse0(c, st) \/ ApiResponse1(c, st))
         => /\ callers'[c] = Ended("apiErr", st)
            /\ \A d \in Callers \ {c} : callers'[d] = callers[d]
            /\ UNCHANGED <<refreshToken, accessToken, idToken, cognitoToken,
                           tokenExpiresAt, _authenticated, _refreshPromise,
                           refreshes>>]_vars

\* a call has failed with status 500 in a session that is authenticated and
\* holds a refresh credential, and no refresh runs
C24_Witness ==
  \E c \in Callers :
    /\ callers[c].result = "apiErr"
    /\ callers[c].last = 500
    /\ _authenticated
    /\ refreshToken # 0
    /\ _refreshPromise = 0

\* C25: initializeWithTokens() after setTokens(): when the token exchange
\* succeeds the session becomes authenticated and its expiry is the fixed
\* lifetime of 8 hours counted from setTokens(); when the exchange fails the
\* call reports the error and a session that was not authenticated stays so.
C25_InitializeWithTokens ==
  [][/\ InitExchangeSucceeded
         => /\ _authenticated'
            /\ tokenExpiresAt' = initPc.since + TOKEN_LIFETIME_MS
     /\ InitExchangeFailed
         => /\ appPc' \in {"fallback", "none"}
            /\ ~_authenticated => ~isAuthenticated']_vars

\* C26: MAC canonicalization: for an identifier of the form mac#suffix the
\* id offered at pairing and the device id are mac, for an identifier without
\* # they are the identifier unchanged, and the match between the device and
\* the appliances of the account list compares canonical forms on both sides.
\* The canonical form as the claim words it:
Canonical(identifier) ==
  IF \E i \in 1..Len(identifier) : identifier[i] = "#"
    THEN CHOOSE mac \in {SubSeq(identifier, 1, n) : n \in 0..Len(identifier)} :
           /\ \A i \in 1..Len(mac) : mac[i] # "#"
           /\ identifier[Len(mac) + 1] = "#"
    ELSE identifier

C26_Canonical ==
  /\ out.fn \in {"paired", "deviceId", "appliance"}
       => out.s = Canonical(arg.s[arg.x])
  /\ out.fn = "appliance"
       => /\ out.x \in 1..Len(arg.s)
          /\ Canonical(arg.s[out.x]) = Canonical(arg.s[arg.x])
          /\ \A k \in 1..(out.x - 1) :
               Canonical(arg.s[k]) # Canonical(arg.s[arg.x])

\* the device of the second appliance, listed as a#b, has found it with the
\* device id a, past a first appliance that is another one
C26_Witness ==
  /\ out.fn = "appliance"
  /\ arg.x = 2
  /\ out.x = 2
  /\ arg.s[2] = <<"a", "#", "b">>
  /\ out.s = <<"a">>

\* C27: a successful refresh performs, in this order, exactly one
\* refresh-grant request with the stored refresh credential and then exactly
\* one token exchange that sends the newly received id token; the stored
\* refresh credential is replaced, and onTokenRefresh() called with it, if and
\* only if the grant response supplied a new one, otherwise it is unchanged.
C27_RefreshSequence ==
  [][\A s \in Slots :
       /\ refreshes'[s].phase # refreshes[s].phase
            => \/ /\ refreshes[s].phase = "idle"
                  /\ refreshes'[s].phase = "grant"
                  /\ refreshes'[s].grant = refreshToken'
                  /\ refreshToken' # 0
               \/ /\ refreshes[s].phase = "grant"
                  /\ refreshes'[s].phase \in {"exchange", "idle"}
               \/ /\ refreshes[s].phase = "exchange"
                  /\ refreshes'[s].phase = "idle"
       /\ ExchangeSucceeded(s) => refreshes[s].phase = "exchange"
       /\ \A e \in ExpiresIn, f \in GrantResponses(NextIssue) :
              refreshes[s].phase = "grant" /\ GrantSucceeded(s, f.a, f.i, f.r, e)
                => /\ refreshes'[s].sentId = f.i
                   /\ refreshes'[s].grant = refreshes[s].grant
                   /\ IF f.r # 0
                        THEN refreshToken' = f.r /\ onTokenRefresh' = f.r
                        ELSE UNCHANGED <<refreshToken, onTokenRefresh>>
       /\ onTokenRefresh' # onTokenRefresh
            => \E r \in Slots : /\ refreshes[r].phase = "grant"
                                 /\ refreshes'[r].phase = "exchange"]_vars

\* a refresh has succeeded whose grant response rotated the refresh
\* credential: the session is authenticated with the pair of the new issue
C27_Witness ==
  /\ onTokenRefresh # 0
  /\ refreshToken = onTokenRefresh
  /\ idToken = onTokenRefresh
  /\ cognitoToken = CognitoFor(idToken)
  /\ _authenticated
  /\ \A s \in Slots : refreshes[s] = IdleSlot

\* C28: whenever the polled state has 10degreeHeatingStatus = 1 the mode
\* reported is anti-freeze (10_heating) whatever machMode is, absent included,
\* and the target temperature reported is 10 whatever tempSel is.
C28_AntiFreezeReported ==
  [][\A state \in PartialStates :
       state.heating = 1 /\ _updateCapabilities(state)
         => /\ hvacMode' = "10_heating"
            /\ targetTemp' = 2 * ANTIFREEZE_TEMP]_vars

\* C29: every command that sets or starts anti-freeze, i.e. a mode change to
\* 10_heating and a power-on while the current mode is 10_heating, carries
\* both machMode = "4" (heat) and 10degreeHeatingStatus = "1".
SetsAntiFreeze(command) ==
  /\ "machMode" \in DOMAIN command.parameters
  /\ command.parameters["machMode"] = "4"
  /\ "10degreeHeatingStatus" \in DOMAIN command.parameters
  /\ command.parameters["10degreeHeatingStatus"] = "1"

C29_AntiFreezeCommands ==
  /\ [][_setHvacMode("10_heating") => SetsAntiFreeze(sent')]_vars
  /\ [][_setOnOff(TRUE) /\ hvacMode = "10_heating" => SetsAntiFreeze(sent')]_vars

\* C30: every power-on, mode-change and settings command (temperature, fan,
\* swing, toggle, eco-pilot) contains at least onOffStatus, machMode, tempSel
\* and windSpeed, each taken from the device's last known capability value
\* when it is not the field being changed.
\* command has the four parameters, and those outside changed are the wire
\* values of the capabilities the device holds
FromCapabilities(command, changed) ==
  LET parameters == command.parameters
  IN /\ {"onOffStatus", "machMode", "tempSel", "windSpeed"} \subseteq DOMAIN parameters
     /\ "onOffStatus" \notin changed /\ onoff # "null"
          => parameters["onOffStatus"] = (IF onoff = "true" THEN "1" ELSE "0")
     /\ "machMode" \notin changed /\ hvacMode # "null"
          => parameters["machMode"] = ToString(HVAC_MODE_TO_HON[hvacMode])
     /\ "tempSel" \notin changed /\ targetTemp >= 2 * MIN_TEMP
          => parameters["tempSel"] = ToString(Round(targetTemp))
     /\ "windSpeed" \notin changed /\ fanSpeed # "null"
          => parameters["windSpeed"] = ToString(FAN_SPEED_TO_HON[fanSpeed])

C30_FourParameters ==
  [][sent' # NoCommand
       => /\ _setOnOff(TRUE) => FromCapabilities(sent', {"onOffStatus"})
          /\ \A value \in ModeRequests :
               _setHvacMode(value) => FromCapabilities(sent', {"machMode"})
          /\ \A value \in TempRequests :
               _setTargetTemperature(value) => FromCapabilities(sent', {"tempSel"})
          /\ \A value \in FanRequests :
               _setFanSpeed(value) => FromCapabilities(sent', {"windSpeed"})
          /\ \A value \in SwingRequests :
               _setSwingMode(value) => FromCapabilities(sent', {})
          /\ \A value \in EcoRequests :
               SetEcoPilot(value) => FromCapabilities(sent', {})
          /\ \A switch \in DOMAIN TOGGLE_CAPABILITIES :
               SetSwitch(switch, TRUE) => FromCapabilities(sent', {})]_vars

\* C31: command kind selection: a fan, swing, toggle or eco-pilot change is
\* sent as a settings command, turning on or switching mode as startProgram,
\* turning off as stopProgram; and no settings command is used to turn on an
\* appliance whose last known power state is off.
C31_CommandKind ==
  [][sent' # NoCommand
       => /\ _setOnOff(TRUE) => sent'.commandName = "startProgram"
          /\ _setOnOff(FALSE) => sent'.commandName = "stopProgram"
          /\ \A value \in ModeRequests :
               _setHvacMode(value) => sent'.commandName = "startProgram"
          /\ (\/ \E value \in FanRequests : _setFanSpeed(value)
              \/ \E value \in SwingRequests : _setSwingMode(value)
              \/ \E value \in EcoRequests : SetEcoPilot(value)
              \/ \E switch \in DOMAIN TOGGLE_CAPABILITIES : SetSwitch(switch, TRUE))
               => /\ sent'.commandName = "settings"
                  /\ onoff = "false" => sent'.parameters["onOffStatus"] # "1"]_vars

\* C32: in every command sent after any sequence of polls and writes, the
\* tempSel parameter lies in [16, 30] unless the command is sent for or in
\* anti-freeze mode; this covers the tempSel carried along by fan, swing,
\* toggle and mode-change commands.
C32_TempSelInRange ==
  [][(/\ sent' # NoCommand
      /\ sent' # sent
      /\ "tempSel" \in DOMAIN sent'.parameters
      /\ hvacMode # "10_heating"
      /\ sent'.programName # "IOT_10_HEATING")
       => sent'.parameters["tempSel"] \in {ToString(n) : n \in MIN_TEMP..MAX_TEMP}]_vars

\* C33: an unrecognized wire value never makes a poll fail: an unknown
\* machMode is reported as auto (outside anti-freeze, where machMode is not
\* consulted), an unknown windSpeed as auto, an unknown humanSensingStatus as
\* off, and the remaining capabilities of the same poll are still updated.
C33_UnknownValues ==
  [][\A state \in WireStates :
       (/\ _updateCapabilities(state)
        /\ UnknownValue \in {state.machMode, state.windSpeed, state.humanSensingStatus})
         => /\ thrown' = "none"
            /\ (state.machMode = UnknownValue /\ state.heating # 1)
                 => hvacMode' = "auto"
            /\ state.windSpeed = UnknownValue => fanSpeed' = "auto"
            /\ state.humanSensingStatus = UnknownValue => ecoPilot' = "off"
            /\ state.machMode \in DOMAIN HON_TO_HVAC_MODE /\ state.heating # 1
                 => hvacMode' = HON_TO_HVAC_MODE[state.machMode]
            /\ state.windSpeed \in DOMAIN HON_TO_FAN_SPEED
                 => fanSpeed' = HON_TO_FAN_SPEED[state.windSpeed]
            /\ state.humanSensingStatus \in DOMAIN HON_TO_ECO_PILOT
                 => ecoPilot' = HON_TO_ECO_PILOT[state.humanSensingStatus]
            /\ onoff' = (IF state.onOffStatus = 1 THEN "true" ELSE "false")
            /\ state.tempSel >= 2 * MIN_TEMP /\ state.heating # 1
                 => targetTemp' = state.tempSel
            /\ swingMode' = SwingOf(state.windDirectionHorizontal,
                                    state.windDirectionVertical)]_vars

\* a poll has reported an unknown mode, fan speed and eco pilot value next to
\* a power state, a target temperature and wind directions
C33_Witness ==
  /\ hvacMode = "auto" /\ fanSpeed = "auto" /\ ecoPilot = "off"
  /\ onoff = "true" /\ targetTemp = 45 /\ swingMode = "both"

\* C34: swing mapping: the polled pair (horizontal, vertical) maps to both
\* when horizontal = 7 and vertical = 8, to horizontal when only horizontal =
\* 7, to vertical when only vertical = 8, and to off otherwise; and for every
\* swing capability value, the wire pair sent for it ((0,5), (0,8), (7,5),
\* (7,8)) maps back to the same capability value.
C34_SwingMapping ==
  /\ out.fn = "horizontal" =>
       /\ (arg.x = 7 /\ out.x = 8) => out.s = "both"
       /\ (arg.x = 7 /\ out.x # 8) => out.s = "horizontal"
       /\ (arg.x # 7 /\ out.x = 8) => out.s = "vertical"
       /\ (arg.x # 7 /\ out.x # 8) => out.s = "off"
  /\ out.fn = "swing" =>
       /\ out.s = arg.s
       /\ out.x = ("off" :> 5 @@ "vertical" :> 8 @@ "horizontal" :> 75
                     @@ "both" :> 78)[arg.s]

\* the pair sent for horizontal has been read back as horizontal
C34_Witness == out.fn = "swing" /\ arg.s = "horizontal" /\ out.s = "horizontal"

\* C35: fan speed and boolean toggle mappings round-trip: for every fan
\* capability value the wire value sent (1, 2, 3, 5) maps back to the same
\* value (wire 4 collapses to auto), and for every boolean toggle the wire
\* value sent for true/false maps back to the same boolean, with echoStatus
\* inverted (true is sent as "0"), both from the capability listener and from
\* the flow action card.
C35_FanAndToggles ==
  /\ out.fn = "fan" =>
       /\ out.s = arg.s
       /\ out.x = ("high" :> 1 @@ "medium" :> 2 @@ "low" :> 3 @@ "auto" :> 5)[arg.s]
  /\ (out.fn = "speed" /\ arg.x = 4) => (out.s = "auto" /\ out.x = 5)
  /\ (out.fn = "speed" /\ arg.x # 4) => out.x = arg.x
  /\ out.fn \in {"switch", "card"} =>
       /\ out.x = arg.x
       /\ arg.s \in {"hon_echo_mode", "set_hon_echo_mode"}
            => out.s = (IF arg.x = 1 THEN "0" ELSE "1")
       /\ arg.s \in {"hon_silent_mode", "set_hon_silent_mode"}
            => out.s = (IF arg.x = 1 THEN "1" ELSE "0")

\* the echo card has sent "0" for true and a poll has read true back
C35_Witness ==
  /\ out.fn = "card" /\ arg.s = "set_hon_echo_mode" /\ arg.x = 1
  /\ out.s = "0" /\ out.x = 1

\* C36: a token-exchange response without a service-access token, or with a
\* non-success status, makes the exchange fail with an error and leaves the
\* stored cognitoToken unchanged.
C36_ExchangeFailure ==
  [][/\ \A s \in Slots :
          (refreshes[s].phase = "exchange" /\ refreshes'[s].phase = "idle"
             /\ cognitoToken' # CognitoFor(refreshes[s].sentId))
            => /\ cognitoToken' = cognitoToken
               /\ failed'
               /\ \A c \in Callers :
                    (callers[c].await = s /\ callers[c].pc \in {"ensure", "reauth"})
                      => callers'[c].result \in {"authErr", "refreshErr"}
     /\ InitExchangeFailed
          => cognitoToken' = cognitoToken /\ appPc' \in {"fallback", "none"}]_vars

\* the exchange of a later id token has failed, and the token of the exchange
\* before it is still held
C36_Witness ==
  /\ cognitoToken # 0 /\ idToken # 0 /\ cognitoToken # CognitoFor(idToken)
  /\ failed
  /\ initPc.pc = "idle"
  /\ \A s \in Slots : refreshes[s] = IdleSlot

\* C37: a poll tick on a session whose tokens are expired (isAuthenticated()
\* is false) but whose api instance exists triggers a refresh attempt through
\* the API call, instead of marking the device unavailable and giving up.
C37_ExpiredPollFetches ==
  [][(/\ PollTick(FALSE)
      /\ _getApi # 0
      /\ time >= _skipPollUntil)
       => polls' = polls + 1 /\ available' = available]_vars

\* C38: if sendCommand fails during any write operation, the error reaches
\* the caller, skipUntil is unchanged, no settle-delay timer is scheduled and
\* no optimistic capability value is written.
C38_FailedWrite ==
  [][CommandDone(FALSE)
       => /\ thrown' = "Request failed"
          /\ _skipPollUntil' = _skipPollUntil
          /\ settleTimers' = settleTimers
          /\ targetTemp' = targetTemp /\ onoff' = onoff
          /\ hvacMode' = hvacMode /\ fanSpeed' = fanSpeed
          /\ swingMode' = swingMode /\ ecoPilot' = ecoPilot
          /\ capability' = capability]_vars

\* a write to an appliance that is off has failed: the appliance is still
\* held to be off, and no timer is left
C38_Witness ==
  /\ thrown = "Request failed" /\ sent = NoCommand
  /\ onoff = "false" /\ targetTemp # 0 /\ settleTimers = <<>>

\* C39: after any interleaving of refreshes with a repair or
\* re-initialization, the refresh, access and id tokens persisted in settings
\* are those held by the current shared instance: a refresh in flight on a
\* replaced instance never overwrites the tokens stored by the repair.
C39_SettingsOfCurrent ==
  app.api # 0 =>
    /\ app.settings.refreshToken = app.instances[app.api].refreshToken
    /\ app.settings.accessToken = app.instances[app.api].accessToken
    /\ app.settings.idToken = app.instances[app.api].idToken

\* C40: poll suppression always ends: once no further write occurs, a
\* settle-delay callback eventually runs a poll, and from then on no timeout
\* is left, _skipPollUntil is not in the future and no regular poll tick is
\* skipped.
C40_SuppressionEnds ==
  /\ <>[](settleTimers = <<>> /\ _skipPollUntil = 0)
  /\ (_skipPollUntil > time) ~> (_skipPollUntil <= time)

\* the timeout of a write has run and nothing suppresses the polls
C40_Witness ==
  /\ lastWrite >= 0 /\ time >= lastWrite + SETTLE_DELAY
  /\ settleTimers = <<>> /\ _skipPollUntil = 0

====
